---- MODULE Spec2Model ----
(***************************************************************************)
(* Model of the trolley inventory backend (django_project/trolleys).       *)
(*                                                                         *)
(* The relational store is a set of rows per table, every row carrying its *)
(* primary key `id`.  Each HTTP handler is one action: it reads the store, *)
(* possibly writes it, and leaves the request it served and the response   *)
(* it returned in `request` and `response`.  Where requests are served     *)
(* concurrently (SpecRace) a handler is two actions, one per database      *)
(* access, and `calls` holds what each client's handler has read.          *)
(*                                                                         *)
(* Pass-through text columns (names, descriptions, stream ids, expected    *)
(* and detected values, ...) are copied by the handlers unchanged and are  *)
(* left out of the rows, except where a handler orders or groups by them.  *)
(***************************************************************************)
EXTENDS Integers, Sequences, FiniteSets, TLC

VARIABLES
    trolleys,        \* Trolley rows
    levels,          \* TrolleyLevel rows
    drawers,         \* TrolleyDrawer rows
    products,        \* Product rows
    specifications,  \* Specification rows
    specItems,       \* SpecificationItem rows
    sensorData,      \* SensorData rows
    trolleyItems,    \* TrolleyItem rows (the items of /api/items/)
    qrData,          \* QRData rows
    nextPk,          \* per table: the next auto-increment primary key
    groupSent,       \* the events accepted by the channel layer for group 'qr_data'
    calls,           \* per client: the handler call in progress, if any
    request,         \* the request served by the last step
    response         \* the response returned by the last step

vars == <<trolleys, levels, drawers, products, specifications, specItems,
          sensorData, trolleyItems, qrData, nextPk, groupSent, calls,
          request, response>>

catalog == <<trolleys, levels, drawers, products>>

(* Everything the database holds.                                          *)
stored == <<trolleys, levels, drawers, products, specifications, specItems,
            sensorData, trolleyItems, qrData, nextPk>>

----------------------------------------------------------------------------
(* Bounds of the model.                                                    *)

MaxReadings == 2   \* SensorData rows stored
MaxTime == 2       \* timestamps are 1..MaxTime
MaxSpecs == 2      \* Specification rows stored
MaxItems == 2      \* SpecificationItem rows stored
MaxQuantity == 2   \* required_quantity values are 1..MaxQuantity

(* An absent query parameter (query_params.get returns None).              *)
Absent == "<absent>"

(* Python truthiness of a query parameter: None and '' are falsy.          *)
Truthy(p) == p # Absent /\ p # ""

Tables == {"specification", "spec_item", "sensor_data", "qr_data"}

----------------------------------------------------------------------------
(* Generic helpers over rows and sequences.                                *)

Range(s) == {s[i] : i \in DOMAIN s}

Row(table, pk) == CHOOSE r \in table : r.id = pk

RECURSIVE SumSeq(_)
SumSeq(s) == IF s = <<>> THEN 0 ELSE Head(s) + SumSeq(Tail(s))

(* All orderings (as sequences of rows) of a finite set of rows.           *)
Orderings(S) ==
    {q \in [1..Cardinality(S) -> S] : \A i, j \in 1..Cardinality(S) : i # j => q[i] # q[j]}

(* LEVEL_CHOICES / get_level_number_display.                               *)
LevelDisplay(n) ==
    CASE n = 1 -> "Nivel 1 (Superior)"
      [] n = 2 -> "Nivel 2 (Medio)"
      [] n = 3 -> "Nivel 3 (Inferior)"
      [] OTHER -> "?"

(* SensorData.ALERT_CHOICES.                                               *)
AlertChoices == {"OK", "Alert"}

(* Values clients send: the flight numbers, the (sensor_type, spec_id)     *)
(* streams the stations report, and the query parameters of the reports.   *)
FlightNumbers == {"F1", "F2"}
SensorStreams == {<<"camera", "S1">>, <<"camera", "S2">>, <<"rfid", "S1">>}
FlightParams == {Absent, "F1"}
AlertParams == {Absent, "Alert"}

----------------------------------------------------------------------------
(* The catalogue the scenarios start from: trolley 1 with two drawers on   *)
(* two levels (DRW_01 on the lower one), trolley 2 with one drawer on its  *)
(* level 3, trolley 3 without drawers; two products.                       *)

FixtureTrolleys ==
    {[id |-> 1, created_at |-> 1], [id |-> 2, created_at |-> 2], [id |-> 3, created_at |-> 3]}

FixtureLevels ==
    {[id |-> 1, trolley |-> 1, level_number |-> 1],
     [id |-> 2, trolley |-> 1, level_number |-> 3],
     [id |-> 3, trolley |-> 2, level_number |-> 3]}

FixtureDrawers ==
    {[id |-> 1, trolley |-> 1, drawer_id |-> "DRW_01", level |-> 2],
     [id |-> 2, trolley |-> 1, drawer_id |-> "DRW_02", level |-> 1],
     [id |-> 3, trolley |-> 2, drawer_id |-> "DRW_03", level |-> 3]}

FixtureProducts ==
    {[id |-> 1, category |-> "Bebida", stock_quantity |-> 10, updated_at |-> 0],
     [id |-> 2, category |-> "Snack", stock_quantity |-> 0, updated_at |-> 0]}

(* Rows a client can have stored through POST /api/sensor-data/ with a     *)
(* valid body (SensorDataViewSet.create): the drawer exists, sensor_type   *)
(* and alert_flag are among the choices.  Primary keys are 1..n in         *)
(* insertion order.                                                        *)
SensorDataFields ==
    {[drawer |-> d, timestamp |-> ts, sensor_type |-> k[1], spec_id |-> k[2],
      alert_flag |-> af, flight_number |-> fn] :
        d \in {x.id : x \in FixtureDrawers}, ts \in 1..MaxTime, k \in SensorStreams,
        af \in AlertChoices, fn \in FlightNumbers}

WithId(fields, pk) == [x \in {"id"} \cup DOMAIN fields |-> IF x = "id" THEN pk ELSE fields[x]]

(* The table holding the rows f[1], ..., f[n] under primary keys 1..n.     *)
TableOf(f) == {WithId(f[i], i) : i \in DOMAIN f}

InitCatalog ==
    /\ trolleys = FixtureTrolleys
    /\ levels = FixtureLevels
    /\ drawers = FixtureDrawers
    /\ products = FixtureProducts
    /\ request = [op |-> "none"]
    /\ response = [status |-> 0]

(* No items, no QR scans, no event sent, no call in progress.              *)
InitQuiet ==
    /\ trolleyItems = {}
    /\ qrData = {}
    /\ groupSent = <<>>
    /\ calls = <<>>

(* Any stored set of sensor readings, no specifications.                   *)
InitCurrent ==
    /\ InitCatalog
    /\ InitQuiet
    /\ specifications = {}
    /\ specItems = {}
    /\ \E n \in 0..MaxReadings : \E f \in [1..n -> SensorDataFields] :
            sensorData = TableOf(f)
    /\ nextPk = [t \in Tables |->
                   IF t = "sensor_data" THEN Cardinality(sensorData) + 1 ELSE 1]

(* Specification rows stored through POST /api/specifications/: spec_id   *)
(* is unique, trolley_template names a trolley.  Rows of equal name are    *)
(* fetched in any order; the name is left out and so is the order.         *)
SpecIds == {"S1", "S2"}

UniqueSpecIds(f) == \A i, j \in DOMAIN f : i # j => f[i].spec_id # f[j].spec_id

SpecificationFields == [spec_id : SpecIds, trolley_template : {1, 2}]

(* SpecificationItem rows stored through the API: the three foreign keys   *)
(* exist, required_quantity >= 1 (MinValueValidator), and the triple       *)
(* (specification, drawer, product) is unique.                             *)
SpecItemFields(specs) ==
    [specification : {x.id : x \in specs}, drawer : {x.id : x \in FixtureDrawers},
     product : {x.id : x \in FixtureProducts}, required_quantity : 1..MaxQuantity]

SameTriple(a, b) ==
    a.specification = b.specification /\ a.drawer = b.drawer /\ a.product = b.product

UniqueTriples(f) == \A i, j \in DOMAIN f : i # j => ~SameTriple(f[i], f[j])

(* Any stored set of specifications and items, no sensor readings.         *)
InitRequired ==
    /\ InitCatalog
    /\ InitQuiet
    /\ \E n \in 0..MaxSpecs : \E f \in [1..n -> SpecificationFields] :
            UniqueSpecIds(f) /\ specifications = TableOf(f)
    /\ \E n \in 0..MaxItems : \E f \in [1..n -> SpecItemFields(specifications)] :
            UniqueTriples(f) /\ specItems = TableOf(f)
    /\ sensorData = {}
    /\ nextPk = [t \in Tables |->
                   CASE t = "specification" -> Cardinality(specifications) + 1
                     [] t = "spec_item" -> Cardinality(specItems) + 1
                     [] OTHER -> 1]

----------------------------------------------------------------------------
(* self.get_object() of TrolleyViewSet: the trolley of the primary key in  *)
(* the URL, or Http404, which the framework answers with a 404.            *)

(* Every primary key taken for a stored trolley.                           *)
TrolleyExists_Always(pk) == TRUE

TrolleyExists(pk) == \E x \in trolleys : x.id = pk

NotFound == [status |-> 404, body |-> [detail |-> "Not found."]]

(* The primary keys clients put in the URL: the stored ones and one more.  *)
TrolleyPks == {x.id : x \in FixtureTrolleys} \cup {Cardinality(FixtureTrolleys) + 1}

----------------------------------------------------------------------------
(* TrolleyViewSet.get_current_contents                                     *)

(* trolley.drawers.all(): Meta.ordering = ['trolley', 'drawer_id'], and    *)
(* drawer_id is unique, so the order within one trolley is by drawer_id.   *)
DrawerIdLess(a, b) ==
    CASE a = b -> FALSE
      [] a = "DRW_01" -> TRUE
      [] b = "DRW_01" -> FALSE
      [] a = "DRW_02" -> TRUE
      [] OTHER -> FALSE

TrolleyDrawers(t) ==
    LET S == {d \in drawers : d.trolley = t}
    IN  CHOOSE q \in Orderings(S) :
            \A i, j \in DOMAIN q : i < j => DrawerIdLess(q[i].drawer_id, q[j].drawer_id)

(* drawer.sensor_data.all().order_by('-timestamp') with the two optional   *)
(* equality filters.  The database orders rows of equal timestamp as it    *)
(* likes: every descending order is a possible result.                     *)
(* The alert_flag filter left out.                                         *)
MatchesFilters_FlightOnly(r, flight_number, alert_flag) ==
    Truthy(flight_number) => r.flight_number = flight_number

MatchesFilters(r, flight_number, alert_flag) ==
    /\ (Truthy(flight_number) => r.flight_number = flight_number)
    /\ (Truthy(alert_flag) => r.alert_flag = alert_flag)

FilteredSensorData(d, flight_number, alert_flag) ==
    {r \in sensorData : r.drawer = d /\ MatchesFilters(r, flight_number, alert_flag)}

(* order_by('timestamp'): oldest first.                                    *)
SensorQuerySets_Ascending(d, flight_number, alert_flag) ==
    {q \in Orderings(FilteredSensorData(d, flight_number, alert_flag)) :
        \A i, j \in DOMAIN q : i < j => q[i].timestamp <= q[j].timestamp}

SensorQuerySets(d, flight_number, alert_flag) ==
    {q \in Orderings(FilteredSensorData(d, flight_number, alert_flag)) :
        \A i, j \in DOMAIN q : i < j => q[i].timestamp >= q[j].timestamp}

(* The reduction loop: keep the first row met for each (sensor_type,       *)
(* spec_id) key; dict order is insertion order.                            *)
SensorKey(r) == <<r.sensor_type, r.spec_id>>

RECURSIVE LatestReadings(_, _)
LatestReadings(qs, kept) ==
    IF qs = <<>> THEN kept
    ELSE LET sensor == Head(qs)
         IN  IF \E k \in Range(kept) : SensorKey(k) = SensorKey(sensor)
             THEN LatestReadings(Tail(qs), kept)
             ELSE LatestReadings(Tail(qs), Append(kept, sensor))

(* The dict built for one kept row.                                        *)
ReadingDict(sensor) ==
    [timestamp |-> sensor.timestamp, sensor_type |-> sensor.sensor_type,
     alert_flag |-> sensor.alert_flag, flight_number |-> sensor.flight_number,
     spec_id |-> sensor.spec_id]

DrawerEntry(drawer, qs) ==
    LET latest == LatestReadings(qs, <<>>)
        readings == [i \in DOMAIN latest |-> ReadingDict(latest[i])]
        drawer_alerts == Cardinality({i \in DOMAIN readings : readings[i].alert_flag = "Alert"})
    IN  [drawer_id |-> drawer.drawer_id,
         level |-> LevelDisplay(Row(levels, drawer.level).level_number),
         readings_count |-> Len(readings),
         alerts |-> drawer_alerts,
         sensor_readings |-> readings]

(* The loop without its exists() test.                                     *)
RECURSIVE DrawersData_NoExistsTest(_, _)
DrawersData_NoExistsTest(ds, qsOf) ==
    IF ds = <<>> THEN <<>>
    ELSE <<DrawerEntry(Head(ds), qsOf[Head(ds).id])>> \o DrawersData_NoExistsTest(Tail(ds), qsOf)

(* The loop over the drawers: qsOf[pk] is the queryset result for drawer pk.*)
RECURSIVE DrawersData(_, _)
DrawersData(ds, qsOf) ==
    IF ds = <<>> THEN <<>>
    ELSE LET drawer == Head(ds)
             rest == DrawersData(Tail(ds), qsOf)
         IN  IF qsOf[drawer.id] # <<>>
             THEN <<DrawerEntry(drawer, qsOf[drawer.id])>> \o rest
             ELSE rest

(* total_drawers counting the listed drawers only.                         *)
CurrentContentsBody_CountListed(t, qsOf) ==
    LET ds == TrolleyDrawers(t)
    IN  IF ds = <<>>
        THEN [trolley_id |-> t,
              message |-> "Este trolley no tiene drawers",
              drawers |-> <<>>]
        ELSE LET drawers_data == DrawersData(ds, qsOf)
             IN  [trolley_id |-> t,
                  total_drawers |-> Len(drawers_data),
                  drawers_with_data |-> Len(drawers_data),
                  total_sensor_readings |->
                      SumSeq([i \in DOMAIN drawers_data |-> drawers_data[i].readings_count]),
                  total_alerts |->
                      SumSeq([i \in DOMAIN drawers_data |-> drawers_data[i].alerts]),
                  drawers |-> drawers_data]

(* The early return for a trolley without drawers left out.                *)
CurrentContentsBody_NoMarker(t, qsOf) ==
    LET ds == TrolleyDrawers(t)
        drawers_data == DrawersData(ds, qsOf)
    IN  [trolley_id |-> t,
         total_drawers |-> Len(ds),
         drawers_with_data |-> Len(drawers_data),
         total_sensor_readings |->
             SumSeq([i \in DOMAIN drawers_data |-> drawers_data[i].readings_count]),
         total_alerts |->
             SumSeq([i \in DOMAIN drawers_data |-> drawers_data[i].alerts]),
         drawers |-> drawers_data]

CurrentContentsBody(t, qsOf) ==
    LET ds == TrolleyDrawers(t)
    IN  IF ds = <<>>
        THEN [trolley_id |-> t,
              message |-> "Este trolley no tiene drawers",
              drawers |-> <<>>]
        ELSE LET drawers_data == DrawersData(ds, qsOf)
             IN  [trolley_id |-> t,
                  total_drawers |-> Len(ds),
                  drawers_with_data |-> Len(drawers_data),
                  total_sensor_readings |->
                      SumSeq([i \in DOMAIN drawers_data |-> drawers_data[i].readings_count]),
                  total_alerts |->
                      SumSeq([i \in DOMAIN drawers_data |-> drawers_data[i].alerts]),
                  drawers |-> drawers_data]

(* All ways the database may answer the per-drawer queries of one request. *)
QueryResults(t, flight_number, alert_flag) ==
    LET pks == {d.id : d \in {x \in drawers : x.trolley = t}}
        all == UNION {SensorQuerySets(pk, flight_number, alert_flag) : pk \in pks}
    IN  {f \in [pks -> all] :
            \A pk \in pks : f[pk] \in SensorQuerySets(pk, flight_number, alert_flag)}

GetCurrentContents(t, flight_number, alert_flag) ==
    /\ request' = [op |-> "get_current_contents", trolley |-> t,
                   flight_number |-> flight_number, alert_flag |-> alert_flag]
    /\ IF TrolleyExists(t)
       THEN \E qsOf \in QueryResults(t, flight_number, alert_flag) :
                response' = [status |-> 200, body |-> CurrentContentsBody(t, qsOf)]
       ELSE response' = NotFound
    /\ UNCHANGED <<stored, groupSent, calls>>

----------------------------------------------------------------------------
NextCurrent ==
    \E t \in {x.id : x \in trolleys}, fn \in FlightParams, af \in AlertParams :
        GetCurrentContents(t, fn, af)

SpecCurrent == InitCurrent /\ [][NextCurrent]_vars

----------------------------------------------------------------------------
(* TrolleyViewSet.get_required_contents                                    *)

(* With a spec_id, any trolley's specification of that id.                 *)
SelectedSpecifications_AnyTrolley(t, spec_id) ==
    IF Truthy(spec_id)
    THEN {s \in specifications : s.spec_id = spec_id}
    ELSE {s \in specifications : s.trolley_template = t}

(* The queryset `specifications` of the handler.  Trolley has no reverse   *)
(* accessor named 'specifications', so the hasattr branch is the filter.   *)
SelectedSpecifications(t, spec_id) ==
    IF Truthy(spec_id)
    THEN {s \in specifications : s.spec_id = spec_id /\ s.trolley_template = t}
    ELSE {s \in specifications : s.trolley_template = t}

(* spec.items...all(): Meta.ordering = ['specification', 'drawer'] orders  *)
(* the items of one specification by their drawer's ordering, that is by   *)
(* the drawer's trolley (newest first) and then drawer_id; the items of    *)
(* one drawer come in any order.                                           *)
ItemOrderLE(a, b) ==
    LET da == Row(drawers, a.drawer)
        db == Row(drawers, b.drawer)
        ta == Row(trolleys, da.trolley).created_at
        tb == Row(trolleys, db.trolley).created_at
    IN  \/ ta > tb
        \/ ta = tb /\ (da.drawer_id = db.drawer_id \/ DrawerIdLess(da.drawer_id, db.drawer_id))

ItemQuerySets(spec) ==
    {q \in Orderings({x \in specItems : x.specification = spec.id}) :
        \A i, j \in DOMAIN q : i < j => ItemOrderLE(q[i], q[j])}

(* product_data of one item.                                               *)
ProductData(item) ==
    [product_id |-> item.product, required_quantity |-> item.required_quantity]

(* items_by_drawer after one more item: a new group at the end if the      *)
(* drawer_id is new, then the product appended to the drawer's group.      *)
AddToDrawerGroups(groups, item) ==
    LET drawer == Row(drawers, item.drawer)
        level == Row(levels, drawer.level)
        known == \E i \in DOMAIN groups : groups[i].drawer_id = drawer.drawer_id
        gs == IF known THEN groups
              ELSE Append(groups, [drawer_id |-> drawer.drawer_id,
                                   drawer_level |-> LevelDisplay(level.level_number),
                                   products |-> <<>>])
    IN  [i \in DOMAIN gs |->
            IF gs[i].drawer_id = drawer.drawer_id
            THEN [gs[i] EXCEPT !.products = Append(@, ProductData(item))]
            ELSE gs[i]]

(* The product replacing the level's list instead of being appended.       *)
AddToLevelGroups_Replace(groups, item) ==
    LET level == Row(levels, Row(drawers, item.drawer).level)
        known == \E i \in DOMAIN groups : groups[i].level_number = level.level_number
        gs == IF known THEN groups
              ELSE Append(groups, [level_number |-> level.level_number,
                                   level_display |-> LevelDisplay(level.level_number),
                                   products |-> <<>>])
    IN  [i \in DOMAIN gs |->
            IF gs[i].level_number = level.level_number
            THEN [gs[i] EXCEPT !.products = <<ProductData(item)>>]
            ELSE gs[i]]

(* items_by_level after one more item, keyed by level_number.              *)
AddToLevelGroups(groups, item) ==
    LET level == Row(levels, Row(drawers, item.drawer).level)
        known == \E i \in DOMAIN groups : groups[i].level_number = level.level_number
        gs == IF known THEN groups
              ELSE Append(groups, [level_number |-> level.level_number,
                                   level_display |-> LevelDisplay(level.level_number),
                                   products |-> <<>>])
    IN  [i \in DOMAIN gs |->
            IF gs[i].level_number = level.level_number
            THEN [gs[i] EXCEPT !.products = Append(@, ProductData(item))]
            ELSE gs[i]]

(* The loop over the items of one specification.                           *)
RECURSIVE GroupItems(_, _)
GroupItems(items, acc) ==
    IF items = <<>> THEN acc
    ELSE LET item == Head(items)
         IN  GroupItems(Tail(items),
                 [items_by_drawer |-> AddToDrawerGroups(acc.items_by_drawer, item),
                  items_by_level |-> AddToLevelGroups(acc.items_by_level, item),
                  spec_total_qty |-> acc.spec_total_qty + item.required_quantity])

(* The level groups left in dict order.                                    *)
LevelsSorted_DictOrder(groups) == groups

(* sorted(items_by_level.values(), key=level_number): a stable sort.       *)
RECURSIVE InsertByLevel(_, _)
InsertByLevel(g, sorted) ==
    IF sorted = <<>> THEN <<g>>
    ELSE IF g.level_number <= Head(sorted).level_number
         THEN <<g>> \o sorted
         ELSE <<Head(sorted)>> \o InsertByLevel(g, Tail(sorted))

RECURSIVE LevelsSorted(_)
LevelsSorted(groups) ==
    IF groups = <<>> THEN <<>>
    ELSE InsertByLevel(Head(groups), LevelsSorted(Tail(groups)))

(* The entry appended to specs_data for one specification.                 *)
SpecEntry(spec, items) ==
    LET g == GroupItems(items, [items_by_drawer |-> <<>>, items_by_level |-> <<>>,
                                spec_total_qty |-> 0])
    IN  [spec_id |-> spec.spec_id,
         total_items_count |-> Len(items),
         total_quantity |-> g.spec_total_qty,
         by_level |-> LevelsSorted(g.items_by_level),
         by_drawer |-> g.items_by_drawer]

(* total_items counting the specifications instead of their items.         *)
RequiredContentsBody_CountSpecs(t, specs, itemsOf) ==
    IF specs = <<>>
    THEN [trolley_id |-> t,
          message |-> "No hay especificaciones asociadas a este trolley",
          specifications |-> <<>>]
    ELSE LET specs_data == [i \in DOMAIN specs |-> SpecEntry(specs[i], itemsOf[specs[i].id])]
         IN  [trolley_id |-> t,
              total_specs |-> Len(specs_data),
              total_items |-> Len(specs_data),
              total_quantity |->
                  SumSeq([i \in DOMAIN specs_data |-> specs_data[i].total_quantity]),
              specifications |-> specs_data]

(* The response body: specs is the specifications queryset as fetched,     *)
(* itemsOf[pk] the items queryset of specification pk as fetched.          *)
RequiredContentsBody(t, specs, itemsOf) ==
    IF specs = <<>>
    THEN [trolley_id |-> t,
          message |-> "No hay especificaciones asociadas a este trolley",
          specifications |-> <<>>]
    ELSE LET specs_data == [i \in DOMAIN specs |-> SpecEntry(specs[i], itemsOf[specs[i].id])]
         IN  [trolley_id |-> t,
              total_specs |-> Len(specs_data),
              total_items |->
                  SumSeq([i \in DOMAIN specs |-> Len(itemsOf[specs[i].id])]),
              total_quantity |->
                  SumSeq([i \in DOMAIN specs_data |-> specs_data[i].total_quantity]),
              specifications |-> specs_data]

(* All ways the database may answer the item queries of the selection.     *)
ItemResults(selected) ==
    LET pks == {s.id : s \in selected}
        all == UNION {ItemQuerySets(s) : s \in selected}
    IN  {f \in [pks -> all] : \A s \in selected : f[s.id] \in ItemQuerySets(s)}

GetRequiredContents(t, spec_id) ==
    /\ request' = [op |-> "get_required_contents", trolley |-> t, spec_id |-> spec_id]
    /\ IF TrolleyExists(t)
       THEN LET selected == SelectedSpecifications(t, spec_id)
            IN  \E specs \in Orderings(selected), itemsOf \in ItemResults(selected) :
                    response' = [status |-> 200,
                                 body |-> RequiredContentsBody(t, specs, itemsOf)]
       ELSE response' = NotFound
    /\ UNCHANGED <<stored, groupSent, calls>>

SpecIdParams == {Absent, "", "S1", "S3"}

NextRequired ==
    \E t \in {x.id : x \in trolleys}, spec_id \in SpecIdParams :
        GetRequiredContents(t, spec_id)

SpecRequired == InitRequired /\ [][NextRequired]_vars

----------------------------------------------------------------------------
(* Both reports asked of any primary key, over a store holding either      *)
(* sensor readings or specifications with their items.                     *)

InitReports == InitCurrent \/ InitRequired

NextReports ==
    \/ \E t \in TrolleyPks, fn \in FlightParams, af \in AlertParams :
          GetCurrentContents(t, fn, af)
    \/ \E t \in TrolleyPks, spec_id \in SpecIdParams :
          GetRequiredContents(t, spec_id)

SpecReports == InitReports /\ [][NextReports]_vars

----------------------------------------------------------------------------
(* Properties of get_required_contents.                                    *)

ServedRequired == request.op = "get_required_contents"

(* The populated-shape report (not the 'no specifications' marker).        *)
RequiredReport ==
    /\ ServedRequired
    /\ response.status = 200
    /\ "message" \notin DOMAIN response.body

SpecBySpecId(spec_id) == CHOOSE s \in specifications : s.spec_id = spec_id

ItemsOfSpec(spec) == {x \in specItems : x.specification = spec.id}

RECURSIVE QuantitySum(_)
QuantitySum(S) ==
    IF S = {} THEN 0
    ELSE LET x == CHOOSE y \in S : TRUE
         IN  x.required_quantity + QuantitySum(S \ {x})

ItemDrawerId(x) == Row(drawers, x.drawer).drawer_id
ItemLevelNumber(x) == Row(levels, Row(drawers, x.drawer).level).level_number

(* Whether the list `plist` holds exactly the product data of the items   *)
(* of S, each item once.                                                   *)
HoldsExactly(plist, S) ==
    /\ Len(plist) = Cardinality(S)
    /\ \A x \in S :
          Cardinality({i \in DOMAIN plist :
                          /\ plist[i].product_id = x.product
                          /\ plist[i].required_quantity = x.required_quantity})
            = Cardinality({y \in S : y.product = x.product
                                      /\ y.required_quantity = x.required_quantity})

(* C3: the entry of a selected specification counts its items, sums their  *)
(* required quantities, and files every item under exactly one by_drawer   *)
(* group (its drawer's) and exactly one by_level group (its level's).      *)
C3_ExpansionComplete ==
    RequiredReport =>
        \A k \in DOMAIN response.body.specifications :
            LET e == response.body.specifications[k]
                items == ItemsOfSpec(SpecBySpecId(e.spec_id))
            IN  /\ e.total_items_count = Cardinality(items)
                /\ e.total_quantity = QuantitySum(items)
                /\ \A i, j \in DOMAIN e.by_drawer :
                      i # j => e.by_drawer[i].drawer_id # e.by_drawer[j].drawer_id
                /\ \A i, j \in DOMAIN e.by_level :
                      i # j => e.by_level[i].level_number # e.by_level[j].level_number
                /\ \A x \in items :
                      /\ \E i \in DOMAIN e.by_drawer : e.by_drawer[i].drawer_id = ItemDrawerId(x)
                      /\ \E i \in DOMAIN e.by_level : e.by_level[i].level_number = ItemLevelNumber(x)
                /\ \A i \in DOMAIN e.by_drawer :
                      HoldsExactly(e.by_drawer[i].products,
                                   {x \in items : ItemDrawerId(x) = e.by_drawer[i].drawer_id})
                /\ \A i \in DOMAIN e.by_level :
                      HoldsExactly(e.by_level[i].products,
                                   {x \in items : ItemLevelNumber(x) = e.by_level[i].level_number})

(* A specification with two items in two drawers of one level number.      *)
C3_Witness ==
    /\ RequiredReport
    /\ \E k \in DOMAIN response.body.specifications :
          LET e == response.body.specifications[k]
          IN  /\ e.total_items_count = 2
              /\ Len(e.by_drawer) = 2
              /\ Len(e.by_level) = 1

(* C6: the totals of the populated report.                                 *)
C6_ReportTotals ==
    RequiredReport =>
        LET body == response.body
            selected == {SpecBySpecId(body.specifications[k].spec_id) :
                            k \in DOMAIN body.specifications}
            items == UNION {ItemsOfSpec(sp) : sp \in selected}
        IN  /\ body.total_specs = Len(body.specifications)
            /\ body.total_specs = Cardinality(selected)
            /\ body.total_items = Cardinality(items)
            /\ body.total_quantity = QuantitySum(items)

(* A report over two specifications holding one item each.                 *)
C6_Witness ==
    /\ RequiredReport
    /\ response.body.total_specs = 2
    /\ response.body.total_items = 2
    /\ \A k \in DOMAIN response.body.specifications :
          response.body.specifications[k].total_items_count = 1

(* The spec_ids of the response, as a set.                                 *)
ListedSpecIds ==
    {response.body.specifications[k].spec_id : k \in DOMAIN response.body.specifications}

(* C7: with a (non-empty) spec_id the specifications reported are exactly  *)
(* the one of that spec_id templated to the requested trolley, if any;     *)
(* without one, exactly those templated to the requested trolley.  No      *)
(* specification is reported twice, and an empty selection is a success.   *)
C7_Selection ==
    ServedRequired =>
        /\ response.status = 200
        /\ Len(response.body.specifications) = Cardinality(ListedSpecIds)
        /\ IF request.spec_id # Absent /\ request.spec_id # ""
           THEN /\ ListedSpecIds =
                     {x.spec_id : x \in {y \in specifications :
                         y.spec_id = request.spec_id /\ y.trolley_template = request.trolley}}
                /\ Cardinality(ListedSpecIds) <= 1
           ELSE ListedSpecIds =
                     {x.spec_id : x \in {y \in specifications :
                         y.trolley_template = request.trolley}}

(* A request naming a stored spec_id that is templated to another trolley, *)
(* while the requested trolley has a specification of its own.             *)
C7_Witness ==
    /\ ServedRequired
    /\ \E x \in specifications :
          x.spec_id = request.spec_id /\ x.trolley_template # request.trolley
    /\ \E x \in specifications : x.trolley_template = request.trolley
    /\ response.body.specifications = <<>>

(* C8: every by_level list is strictly ascending in level_number.          *)
C8_LevelsAscending ==
    RequiredReport =>
        \A k \in DOMAIN response.body.specifications :
            LET by_level == response.body.specifications[k].by_level
            IN  \A i, j \in DOMAIN by_level :
                    i < j => by_level[i].level_number < by_level[j].level_number

(* Two level groups whose items were fetched with the higher level first:  *)
(* the first drawer group is on the level of the last level group.         *)
C8_Witness ==
    /\ RequiredReport
    /\ \E k \in DOMAIN response.body.specifications :
          LET e == response.body.specifications[k]
          IN  /\ Len(e.by_level) = 2
              /\ e.by_drawer[1].drawer_level = e.by_level[2].level_display

(* C9: for a trolley without specifications the response is a success      *)
(* carrying the 'no specifications' marker and total_specs = 0.            *)
C9_NoSpecsMarkerWithTotal ==
    (ServedRequired /\ {x \in specifications : x.trolley_template = request.trolley} = {}) =>
        /\ response.status = 200
        /\ response.body.message = "No hay especificaciones asociadas a este trolley"
        /\ "total_specs" \in DOMAIN response.body
        /\ response.body.total_specs = 0

----------------------------------------------------------------------------
(* Properties of get_current_contents.                                     *)

ServedCurrent == request.op = "get_current_contents"

(* The populated-shape report (not the 'no drawers' marker).               *)
CurrentReport ==
    /\ ServedCurrent
    /\ response.status = 200
    /\ "message" \notin DOMAIN response.body

DrawerOf(drawer_id) == CHOOSE d \in drawers : d.drawer_id = drawer_id

(* The stored rows of drawer pk that pass the request's filters.           *)
PassingRows(pk) ==
    {x \in sensorData :
        /\ x.drawer = pk
        /\ (Truthy(request.flight_number) => x.flight_number = request.flight_number)
        /\ (Truthy(request.alert_flag) => x.alert_flag = request.alert_flag)}

ReadingKey(r) == <<r.sensor_type, r.spec_id>>

(* The positions <<i, j>> of the readings of a report body.                *)
ReadingPositions(body) ==
    {p \in (DOMAIN body.drawers) \X (1..MaxReadings + 1) :
        p[2] \in DOMAIN body.drawers[p[1]].sensor_readings}

(* C1: every listed drawer holds at most one reading per (sensor_type,     *)
(* spec_id) pair, and that reading is a stored reading of the drawer that  *)
(* passes the filters and has the maximum timestamp among the drawer's     *)
(* passing readings of the same pair.                                      *)
C1_LatestPerKey ==
    CurrentReport =>
        \A i \in DOMAIN response.body.drawers :
            LET e == response.body.drawers[i]
                rows == PassingRows(DrawerOf(e.drawer_id).id)
            IN  /\ \A a, b \in DOMAIN e.sensor_readings :
                        a # b => ReadingKey(e.sensor_readings[a]) # ReadingKey(e.sensor_readings[b])
                /\ \A a \in DOMAIN e.sensor_readings :
                        LET r == e.sensor_readings[a]
                        IN  /\ \E x \in rows :
                                  /\ x.timestamp = r.timestamp
                                  /\ ReadingKey(x) = ReadingKey(r)
                                  /\ x.alert_flag = r.alert_flag
                                  /\ x.flight_number = r.flight_number
                            /\ \A y \in rows :
                                  ReadingKey(y) = ReadingKey(r) => y.timestamp <= r.timestamp

(* A drawer with an older and a newer passing reading of one pair was      *)
(* reduced to a single reading.                                            *)
C1_Witness ==
    /\ CurrentReport
    /\ \E i \in DOMAIN response.body.drawers :
          LET e == response.body.drawers[i]
              rows == PassingRows(DrawerOf(e.drawer_id).id)
          IN  /\ Len(e.sensor_readings) = 1
              /\ \E x, y \in rows :
                    ReadingKey(x) = ReadingKey(y) /\ x.timestamp < y.timestamp

(* Whether reading r is listed under drawer_id in a report body.           *)
ListedIn(body, drawer_id, r) ==
    \E i \in DOMAIN body.drawers :
        /\ body.drawers[i].drawer_id = drawer_id
        /\ \E j \in DOMAIN body.drawers[i].sensor_readings :
              body.drawers[i].sensor_readings[j] = r

KeyListedIn(body, drawer_id, key) ==
    \E i \in DOMAIN body.drawers :
        /\ body.drawers[i].drawer_id = drawer_id
        /\ \E j \in DOMAIN body.drawers[i].sensor_readings :
              ReadingKey(body.drawers[i].sensor_readings[j]) = key

FilterGiven == Truthy(request.flight_number) \/ Truthy(request.alert_flag)

ReadingMatchesRequest(r) ==
    /\ (Truthy(request.flight_number) => r.flight_number = request.flight_number)
    /\ (Truthy(request.alert_flag) => r.alert_flag = request.alert_flag)

(* The bodies the same call can return without the filters.                *)
UnfilteredBodies ==
    {CurrentContentsBody(request.trolley, q) :
        q \in QueryResults(request.trolley, Absent, Absent)}

(* C2 as stated: each reading returned with a filter matches the filter    *)
(* and is also returned by the same call without the filter.               *)
C2_FilteredSubsetOfUnfiltered ==
    (CurrentReport /\ FilterGiven) =>
        \A p \in ReadingPositions(response.body) :
            LET e == response.body.drawers[p[1]]
                r == e.sensor_readings[p[2]]
            IN  /\ ReadingMatchesRequest(r)
                /\ \E body \in UnfilteredBodies : ListedIn(body, e.drawer_id, r)

(* C2 amended: each reading returned with a filter matches the filter and  *)
(* is a stored reading of its drawer; the drawers listed and, per drawer,  *)
(* the (sensor_type, spec_id) pairs listed are among those of the same     *)
(* call without the filter.  The reading kept for a pair may differ.       *)
C2_FilteredMatchesAndKeysSubset ==
    (CurrentReport /\ FilterGiven) =>
        \A p \in ReadingPositions(response.body) :
            LET e == response.body.drawers[p[1]]
                r == e.sensor_readings[p[2]]
            IN  /\ ReadingMatchesRequest(r)
                /\ \E x \in sensorData :
                      /\ x.drawer = DrawerOf(e.drawer_id).id
                      /\ x.timestamp = r.timestamp
                      /\ ReadingKey(x) = ReadingKey(r)
                      /\ x.alert_flag = r.alert_flag
                      /\ x.flight_number = r.flight_number
                /\ \A body \in UnfilteredBodies :
                      KeyListedIn(body, e.drawer_id, ReadingKey(r))

(* A filtered report that lists a reading while the filter excluded a      *)
(* stored reading of the same drawer.                                      *)
C2_Witness ==
    /\ CurrentReport
    /\ FilterGiven
    /\ \E i \in DOMAIN response.body.drawers :
          LET e == response.body.drawers[i]
          IN  /\ e.sensor_readings # <<>>
              /\ \E x \in sensorData :
                    x.drawer = DrawerOf(e.drawer_id).id /\ ~ReadingMatchesRequest(x)

(* C4: a drawer of the trolley without a reading passing the filters is    *)
(* not listed, and no listed drawer has an empty sensor_readings list.     *)
C4_NoDataDrawerAbsent ==
    CurrentReport =>
        /\ \A d \in drawers :
              (d.trolley = request.trolley /\ PassingRows(d.id) = {}) =>
                  \A i \in DOMAIN response.body.drawers :
                      response.body.drawers[i].drawer_id # d.drawer_id
        /\ \A i \in DOMAIN response.body.drawers :
              response.body.drawers[i].sensor_readings # <<>>

(* A report for a trolley one of whose drawers has stored readings, none   *)
(* passing the filters, while another of its drawers is listed.            *)
C4_Witness ==
    /\ CurrentReport
    /\ response.body.drawers # <<>>
    /\ \E d \in drawers :
          /\ d.trolley = request.trolley
          /\ PassingRows(d.id) = {}
          /\ \E x \in sensorData : x.drawer = d.id

(* C5: the totals of the populated report.                                 *)
C5_ReportTotals ==
    CurrentReport =>
        LET body == response.body
            positions == ReadingPositions(body)
        IN  /\ body.total_drawers = Cardinality({d \in drawers : d.trolley = request.trolley})
            /\ body.drawers_with_data = Len(body.drawers)
            /\ \A i \in DOMAIN body.drawers :
                  /\ body.drawers[i].readings_count = Len(body.drawers[i].sensor_readings)
                  /\ body.drawers[i].readings_count >= 1
            /\ body.total_sensor_readings = Cardinality(positions)
            /\ body.total_alerts =
                  Cardinality({p \in positions :
                      body.drawers[p[1]].sensor_readings[p[2]].alert_flag = "Alert"})

(* A report with a drawer of the trolley left out, at least one alert and  *)
(* one reading that is not an alert.                                       *)
C5_Witness ==
    /\ CurrentReport
    /\ response.body.drawers_with_data < response.body.total_drawers
    /\ response.body.total_alerts >= 1
    /\ response.body.total_sensor_readings > response.body.total_alerts

(* C10: for a trolley without drawers the response is a success carrying   *)
(* the 'no drawers' marker and an empty drawers list, without totals.      *)
C10_NoDrawersMarker ==
    (ServedCurrent /\ {d \in drawers : d.trolley = request.trolley} = {}) =>
        /\ response.status = 200
        /\ DOMAIN response.body = {"trolley_id", "message", "drawers"}
        /\ response.body.message = "Este trolley no tiene drawers"
        /\ response.body.drawers = <<>>
        /\ response.body.trolley_id = request.trolley

(* The report of a trolley without drawers was served while readings are   *)
(* stored for other trolleys.                                              *)
C10_Witness ==
    /\ ServedCurrent
    /\ {d \in drawers : d.trolley = request.trolley} = {}
    /\ sensorData # {}

----------------------------------------------------------------------------
(* Properties of both reports.                                             *)

ServedReport == ServedCurrent \/ ServedRequired

(* C11: either report answers 404 exactly when no trolley has the primary  *)
(* key of the URL; for a stored trolley, whatever is stored and whatever   *)
(* the query parameters are, it answers 200 with a report or with the      *)
(* empty marker (a message and an empty list).                             *)
C11_NotFoundIffNoTrolley ==
    ServedReport =>
        /\ response.status \in {200, 404}
        /\ response.status = 404 <=> (\A x \in trolleys : x.id # request.trolley)
        /\ response.status = 200 =>
              /\ response.body.trolley_id = request.trolley
              /\ "message" \in DOMAIN response.body =>
                    IF ServedCurrent THEN response.body.drawers = <<>>
                    ELSE response.body.specifications = <<>>

(* A primary key no trolley has was asked for while rows are stored.       *)
C11_Witness ==
    /\ ServedReport
    /\ response.status = 404
    /\ sensorData # {} \/ specItems # {}

----------------------------------------------------------------------------
(* ProductViewSet.update_stock                                             *)

MaxClock == 3      \* updated_at values are 0..MaxClock

(* The values a JSON or form body can carry under 'stock_quantity'; text   *)
(* is a sequence of characters, a fractional number is given in tenths.    *)
JsonMissing == [json |-> "missing"]
JsonNull == [json |-> "null"]
JsonInt(n) == [json |-> "int", int |-> n]
JsonFloat(t) == [json |-> "float", tenths |-> t]
JsonBool(b) == [json |-> "bool", bool |-> b]
JsonText(cs) == [json |-> "text", text |-> cs]
JsonList == [json |-> "list"]
JsonObject == [json |-> "object"]

StockInputs ==
    {JsonMissing, JsonNull, JsonInt(-1), JsonInt(0), JsonInt(15),
     JsonText(<<"1", "5">>), JsonText(<<"-", "1">>), JsonText(<<"a", "b", "c">>),
     JsonText(<<"1", ".", "5">>), JsonFloat(15), JsonFloat(-5), JsonBool(TRUE),
     JsonList, JsonObject}

(* Python's int(): an int is itself, a bool is 0 or 1, a float is cut      *)
(* towards zero, text is an optional sign and decimal digits (ValueError   *)
(* otherwise), a list or a dict is a TypeError.                            *)
Digits == <<"0", "1", "2", "3", "4", "5", "6", "7", "8", "9">>

IsDigit(c) == \E i \in DOMAIN Digits : Digits[i] = c

DigitValue(c) == (CHOOSE i \in DOMAIN Digits : Digits[i] = c) - 1

RECURSIVE DigitsValue(_, _)
DigitsValue(cs, acc) ==
    IF cs = <<>> THEN acc
    ELSE DigitsValue(Tail(cs), 10 * acc + DigitValue(Head(cs)))

Converted(n) == [ok |-> TRUE, value |-> n]
Raised(e) == [ok |-> FALSE, error |-> e]

TextToInt(cs) ==
    LET signed == cs # <<>> /\ Head(cs) \in {"+", "-"}
        body == IF signed THEN Tail(cs) ELSE cs
    IN  IF body # <<>> /\ \A i \in DOMAIN body : IsDigit(body[i])
        THEN Converted(IF signed /\ Head(cs) = "-"
                       THEN 0 - DigitsValue(body, 0) ELSE DigitsValue(body, 0))
        ELSE Raised("ValueError")

PyInt(v) ==
    CASE v.json = "int" -> Converted(v.int)
      [] v.json = "bool" -> Converted(IF v.bool THEN 1 ELSE 0)
      [] v.json = "float" ->
            Converted(IF v.tenths >= 0 THEN v.tenths \div 10 ELSE 0 - ((0 - v.tenths) \div 10))
      [] v.json = "text" -> TextToInt(v.text)
      [] OTHER -> Raised("TypeError")

(* updated_at = auto_now: the time of the save, later than every stored    *)
(* time.                                                                   *)
RECURSIVE MaxOf(_)
MaxOf(S) ==
    IF S = {} THEN 0
    ELSE LET x == CHOOSE y \in S : TRUE
             m == MaxOf(S \ {x})
         IN  IF x > m THEN x ELSE m

NowOf(table) == 1 + MaxOf({x.updated_at : x \in table})

Now == NowOf(products)

(* product.save(): every column of the row of the instance's primary key   *)
(* is written from the instance, updated_at with the time of the save.     *)
SavedAt(instance, time) == [instance EXCEPT !.updated_at = time]

Saved(instance) == SavedAt(instance, Now)

Save(table, instance) ==
    {IF r.id = instance.id THEN SavedAt(instance, NowOf(table)) ELSE r : r \in table}

(* serializer.data of ProductSerializer.                                   *)
ProductSerializerData(instance) == instance

ServerError == [status |-> 500, body |-> [detail |-> "Server Error (500)"]]

ErrorBody(text) == [error |-> text]

(* The handler after get_object: what it answers, and the instance it      *)
(* saves, if it saves.                                                     *)
(* The negative test left out.                                             *)
UpdateStockOutcome_NoNegativeTest(product, new_stock) ==
    IF new_stock.json \in {"missing", "null"}
    THEN [status |-> 400, body |-> ErrorBody("stock_quantity es requerido"), save |-> FALSE]
    ELSE LET n == PyInt(new_stock)
         IN  CASE n.ok ->
                    [status |-> 200, save |-> TRUE,
                     instance |-> [product EXCEPT !.stock_quantity = n.value]]
               [] ~n.ok /\ n.error = "ValueError" ->
                    [status |-> 400, save |-> FALSE,
                     body |-> ErrorBody("stock_quantity debe ser un número entero")]
               [] OTHER -> [status |-> 500, save |-> FALSE, body |-> ServerError.body]

(* The instance saved before the negative test.                            *)
UpdateStockOutcome_SaveFirst(product, new_stock) ==
    IF new_stock.json \in {"missing", "null"}
    THEN [status |-> 400, body |-> ErrorBody("stock_quantity es requerido"), save |-> FALSE]
    ELSE LET n == PyInt(new_stock)
         IN  CASE n.ok /\ n.value < 0 ->
                    [status |-> 400, save |-> TRUE,
                     instance |-> [product EXCEPT !.stock_quantity = n.value],
                     body |-> ErrorBody("El stock no puede ser negativo")]
               [] n.ok /\ n.value >= 0 ->
                    [status |-> 200, save |-> TRUE,
                     instance |-> [product EXCEPT !.stock_quantity = n.value]]
               [] ~n.ok /\ n.error = "ValueError" ->
                    [status |-> 400, save |-> FALSE,
                     body |-> ErrorBody("stock_quantity debe ser un número entero")]
               [] OTHER -> [status |-> 500, save |-> FALSE, body |-> ServerError.body]

UpdateStockOutcome(product, new_stock) ==
    IF new_stock.json \in {"missing", "null"}
    THEN [status |-> 400, body |-> ErrorBody("stock_quantity es requerido"), save |-> FALSE]
    ELSE LET n == PyInt(new_stock)
         IN  CASE n.ok /\ n.value < 0 ->
                    [status |-> 400, save |-> FALSE,
                     body |-> ErrorBody("El stock no puede ser negativo")]
               [] n.ok /\ n.value >= 0 ->
                    [status |-> 200, save |-> TRUE,
                     instance |-> [product EXCEPT !.stock_quantity = n.value]]
               [] ~n.ok /\ n.error = "ValueError" ->
                    [status |-> 400, save |-> FALSE,
                     body |-> ErrorBody("stock_quantity debe ser un número entero")]
               [] OTHER -> [status |-> 500, save |-> FALSE, body |-> ServerError.body]

(* The response of an outcome: a saved instance is serialized as saved.    *)
OutcomeResponse(out) ==
    IF out.status = 200
    THEN [status |-> 200, body |-> ProductSerializerData(Saved(out.instance))]
    ELSE [status |-> out.status, body |-> out.body]

ProductExists(pk) == \E x \in products : x.id = pk

(* POST /api/products/{pk}/update-stock/ served from start to end.         *)
UpdateStock(pk, new_stock) ==
    /\ request' = [op |-> "update_stock", pk |-> pk, stock_quantity |-> new_stock]
    /\ IF ProductExists(pk)
       THEN LET out == UpdateStockOutcome(Row(products, pk), new_stock)
            IN  /\ out.save => Now <= MaxClock
                /\ response' = OutcomeResponse(out)
                /\ products' = IF out.save THEN Save(products, out.instance) ELSE products
       ELSE /\ response' = NotFound
            /\ products' = products
    /\ UNCHANGED <<trolleys, levels, drawers, specifications, specItems, sensorData,
                   trolleyItems, qrData, nextPk, groupSent, calls>>

(* GET /api/products/{pk}/ (ModelViewSet.retrieve).                        *)
RetrieveProduct(pk) ==
    /\ request' = [op |-> "retrieve_product", pk |-> pk]
    /\ response' = IF ProductExists(pk)
                   THEN [status |-> 200, body |-> ProductSerializerData(Row(products, pk))]
                   ELSE NotFound
    /\ UNCHANGED <<stored, groupSent, calls>>

(* The primary keys clients put in the URL: the stored ones and one more.  *)
ProductPks == {x.id : x \in FixtureProducts} \cup {Cardinality(FixtureProducts) + 1}

----------------------------------------------------------------------------
(* The items of /api/items/ (TrolleyItem) and their decrease-quantity      *)
(* operation, which tests.py exercises: a row holds a quantity, and the    *)
(* operation reads the row, tests the amount and writes the row.           *)

(* The item of the test fixture (quantity=10).                             *)
FixtureItems == {[id |-> 1, quantity |-> 10]}

Amounts == {-1, 0, 3, 10, 20}

ItemExists(pk) == \E x \in trolleyItems : x.id = pk

(* The test against the available quantity left out.                      *)
DecreaseOutcome_NoAvailableTest(item, amount) ==
    IF amount < 0
    THEN [status |-> 400, save |-> FALSE,
          body |-> [error |-> "cantidad insuficiente", available |-> item.quantity]]
    ELSE [status |-> 200, save |-> TRUE,
          instance |-> [item EXCEPT !.quantity = @ - amount]]

DecreaseOutcome(item, amount) ==
    IF amount < 0 \/ amount > item.quantity
    THEN [status |-> 400, save |-> FALSE,
          body |-> [error |-> "cantidad insuficiente", available |-> item.quantity]]
    ELSE [status |-> 200, save |-> TRUE,
          instance |-> [item EXCEPT !.quantity = @ - amount]]

(* POST /api/items/{pk}/decrease-quantity/ served from start to end.       *)
DecreaseQuantity(pk, amount) ==
    /\ request' = [op |-> "decrease_quantity", pk |-> pk, amount |-> amount]
    /\ IF ItemExists(pk)
       THEN LET out == DecreaseOutcome(Row(trolleyItems, pk), amount)
            IN  /\ response' = IF out.save THEN [status |-> 200, body |-> out.instance]
                                ELSE [status |-> out.status, body |-> out.body]
                /\ trolleyItems' = IF out.save
                                   THEN {IF r.id = pk THEN out.instance ELSE r : r \in trolleyItems}
                                   ELSE trolleyItems
       ELSE /\ response' = NotFound
            /\ trolleyItems' = trolleyItems
    /\ UNCHANGED <<catalog, specifications, specItems, sensorData, qrData, nextPk,
                   groupSent, calls>>

ItemPks == {x.id : x \in FixtureItems} \cup {Cardinality(FixtureItems) + 1}

----------------------------------------------------------------------------
(* The inventory mutations, one request at a time.                         *)

InitStock ==
    /\ InitCatalog
    /\ specifications = {}
    /\ specItems = {}
    /\ sensorData = {}
    /\ trolleyItems = FixtureItems
    /\ qrData = {}
    /\ nextPk = [t \in Tables |-> 1]
    /\ groupSent = <<>>
    /\ calls = <<>>

NextStock ==
    \/ \E pk \in ProductPks, new_stock \in StockInputs : UpdateStock(pk, new_stock)
    \/ \E pk \in ProductPks : RetrieveProduct(pk)
    \/ \E pk \in ItemPks, amount \in Amounts : DecreaseQuantity(pk, amount)

SpecStock == InitStock /\ [][NextStock]_vars

----------------------------------------------------------------------------
(* Properties of the inventory mutations served one at a time.             *)

(* C12: update_stock with a negative integer answers 400 with an error;    *)
(* with a non-negative integer it answers 200 carrying the new value and   *)
(* stores it; and a read of a product returns the stock_quantity stored    *)
(* before it and stores nothing, so it returns the value last set until    *)
(* the next mutation.                                                      *)
C12_Step ==
    /\ (/\ request'.op = "update_stock"
        /\ ProductExists(request'.pk)
        /\ request'.stock_quantity.json = "int") =>
            IF request'.stock_quantity.int < 0
            THEN /\ response'.status = 400
                 /\ "error" \in DOMAIN response'.body
            ELSE /\ response'.status = 200
                 /\ response'.body.stock_quantity = request'.stock_quantity.int
                 /\ Row(products', request'.pk).stock_quantity = request'.stock_quantity.int
    /\ (request'.op = "retrieve_product" /\ ProductExists(request'.pk)) =>
            /\ response'.status = 200
            /\ response'.body.stock_quantity = Row(products, request'.pk).stock_quantity
            /\ products' = products

C12_SetQuantityGuard == [][C12_Step]_vars

(* A read returned 15, which only a successful update_stock stores.        *)
C12_Witness ==
    /\ request.op = "retrieve_product"
    /\ response.status = 200
    /\ response.body.stock_quantity = 15

(* C13: decreasing the quantity q of an item by an amount a with           *)
(* 0 <= a <= q answers 200 and leaves q - a (10 decreased by 3 gives 7);   *)
(* any other amount answers 400 naming the available quantity q, and the   *)
(* quantity stays q.                                                       *)
C13_Step ==
    (request'.op = "decrease_quantity" /\ ItemExists(request'.pk)) =>
        LET q == Row(trolleyItems, request'.pk).quantity
            a == request'.amount
        IN  IF 0 <= a /\ a <= q
            THEN /\ response'.status = 200
                 /\ response'.body.quantity = q - a
                 /\ Row(trolleyItems', request'.pk).quantity = q - a
                 /\ q = 10 /\ a = 3 => Row(trolleyItems', request'.pk).quantity = 7
            ELSE /\ response'.status = 400
                 /\ response'.body.available = q
                 /\ trolleyItems' = trolleyItems

C13_DecreaseGuard == [][C13_Step]_vars

(* 10 was decreased by 3, and then a decrease by 10 was rejected with 7    *)
(* available.                                                              *)
C13_Witness ==
    /\ request.op = "decrease_quantity"
    /\ request.amount = 10
    /\ response.status = 400
    /\ response.body.available = 7
    /\ \E x \in trolleyItems : x.quantity = 7

(* A stock_quantity that is a non-negative integer, as a number or as the  *)
(* decimal text of one.                                                    *)
NonNegativeInteger(v) ==
    \/ v.json = "int" /\ v.int >= 0
    \/ v.json = "text" /\ v.text # <<>> /\ \A i \in DOMAIN v.text : IsDigit(v.text[i])

(* C14: update_stock on a stored product answers 400 and stores nothing    *)
(* for every stock_quantity that is not a non-negative integer.            *)
C14_Step ==
    (/\ request'.op = "update_stock"
     /\ ProductExists(request'.pk)
     /\ ~NonNegativeInteger(request'.stock_quantity)) =>
        /\ response'.status = 400
        /\ products' = products

C14_OnlyNonNegativeIntegers == [][C14_Step]_vars

(* C15: an update_stock that answers with an error leaves the product      *)
(* rows as they were.                                                      *)
C15_Step ==
    (request'.op = "update_stock" /\ response'.status >= 400) => products' = products

C15_ErrorLeavesRow == [][C15_Step]_vars

(* A negative stock_quantity was rejected for a product whose stock an     *)
(* earlier call had set to 15.                                             *)
C15_Witness ==
    /\ request.op = "update_stock"
    /\ request.stock_quantity = JsonInt(-1)
    /\ response.status = 400
    /\ ProductExists(request.pk)
    /\ Row(products, request.pk).stock_quantity = 15

----------------------------------------------------------------------------
(* The inventory mutations served concurrently.  A handler reads its row   *)
(* (get_object) in one database access and writes it (save) in another;    *)
(* no transaction or row lock joins the two, so another client's accesses  *)
(* can come in between.  Each client sends one request.                    *)

Clients == {1, 2}

Idle == [pc |-> "idle"]

Categories == {"Bebida", "Snack"}

(* PATCH /api/products/{pk}/ with {"category": c} (UpdateModelMixin):      *)
(* the serializer sets the validated attributes on the instance read by    *)
(* get_object and saves the instance.                                      *)
PartialUpdateOutcome(product, category) ==
    [status |-> 200, save |-> TRUE, instance |-> [product EXCEPT !.category = category]]

(* What a handler does with the instance it read.                          *)
CallOutcome(call) ==
    CASE call.op = "update_stock" -> UpdateStockOutcome(call.instance, call.data)
      [] call.op = "partial_update" -> PartialUpdateOutcome(call.instance, call.data)
      [] OTHER -> DecreaseOutcome(call.instance, call.data)

CallTable(op) == IF op = "decrease_quantity" THEN trolleyItems ELSE products

(* The first database access of a handler: get_object.  A missing row      *)
(* ends the call with a 404.                                               *)
BeginCall(c, op, pk, data) ==
    /\ calls[c] = Idle
    /\ IF \E x \in CallTable(op) : x.id = pk
       THEN /\ calls' = [calls EXCEPT ![c] =
                            [pc |-> "read", op |-> op, pk |-> pk, data |-> data,
                             instance |-> Row(CallTable(op), pk)]]
            /\ UNCHANGED <<request, response>>
       ELSE /\ calls' = [calls EXCEPT ![c] =
                            [pc |-> "done", op |-> op, pk |-> pk, data |-> data,
                             status |-> 404]]
            /\ request' = [op |-> op, pk |-> pk, data |-> data, client |-> c]
            /\ response' = NotFound
    /\ UNCHANGED stored
    /\ UNCHANGED groupSent

(* The rest of the handler: the tests, the save and the response.          *)
FinishCall(c) ==
    /\ calls[c].pc = "read"
    /\ LET call == calls[c]
           out == CallOutcome(call)
       IN  /\ calls' = [calls EXCEPT ![c] =
                           [pc |-> "done", op |-> call.op, pk |-> call.pk,
                            data |-> call.data, status |-> out.status]]
           /\ request' = [op |-> call.op, pk |-> call.pk, data |-> call.data, client |-> c]
           /\ IF call.op = "decrease_quantity"
              THEN /\ response' = IF out.save THEN [status |-> 200, body |-> out.instance]
                                   ELSE [status |-> out.status, body |-> out.body]
                   /\ trolleyItems' = IF out.save
                                      THEN {IF r.id = call.pk THEN out.instance ELSE r :
                                                r \in trolleyItems}
                                      ELSE trolleyItems
                   /\ products' = products
              ELSE /\ out.save => Now <= MaxClock
                   /\ response' = OutcomeResponse(out)
                   /\ products' = IF out.save THEN Save(products, out.instance) ELSE products
                   /\ trolleyItems' = trolleyItems
    /\ UNCHANGED <<trolleys, levels, drawers, specifications, specItems, sensorData,
                   qrData, nextPk, groupSent>>

InitRace ==
    /\ InitCatalog
    /\ specifications = {}
    /\ specItems = {}
    /\ sensorData = {}
    /\ trolleyItems = FixtureItems
    /\ qrData = {}
    /\ nextPk = [t \in Tables |-> 1]
    /\ groupSent = <<>>
    /\ calls = [c \in Clients |-> Idle]

NextRace ==
    \/ \E c \in Clients, pk \in ProductPks, new_stock \in StockInputs :
          BeginCall(c, "update_stock", pk, new_stock)
    \/ \E c \in Clients, pk \in ProductPks, category \in Categories :
          BeginCall(c, "partial_update", pk, category)
    \/ \E c \in Clients, pk \in ItemPks, amount \in Amounts :
          BeginCall(c, "decrease_quantity", pk, amount)
    \/ \E c \in Clients : FinishCall(c)

SpecRace == InitRace /\ [][NextRace]_vars

----------------------------------------------------------------------------
(* Properties of the inventory mutations served concurrently.              *)

(* No call is between its read and its write.                              *)
Quiescent == \A c \in Clients : calls[c].pc # "read"

DoneClients == {c \in Clients : calls[c].pc = "done"}

(* The store after the call of client c has run alone, from get_object to  *)
(* the response, on the store st.                                          *)
ApplyCall(st, c) ==
    LET call == calls[c]
        table == IF call.op = "decrease_quantity" THEN st.items ELSE st.products
    IN  IF \A x \in table : x.id # call.pk THEN st
        ELSE LET out == CallOutcome([op |-> call.op, data |-> call.data,
                                     instance |-> Row(table, call.pk)])
             IN  CASE ~out.save -> st
                   [] out.save /\ call.op = "decrease_quantity" ->
                        [st EXCEPT !.items =
                            {IF r.id = call.pk THEN out.instance ELSE r : r \in st.items}]
                   [] OTHER -> [st EXCEPT !.products = Save(st.products, out.instance)]

RECURSIVE ApplyAll(_, _)
ApplyAll(st, order) ==
    IF order = <<>> THEN st ELSE ApplyAll(ApplyCall(st, Head(order)), Tail(order))

(* A table without its save times.                                         *)
SansTime(table) == {[r EXCEPT !.updated_at = 0] : r \in table}

SerialStores ==
    {ApplyAll([products |-> FixtureProducts, items |-> FixtureItems], order) :
        order \in Orderings(DoneClients)}

(* C16: once the concurrent mutation requests have all been answered, the  *)
(* stored rows (save times aside) are those that running the same requests *)
(* one after another, in some order, leaves.                               *)
C16_SerialOutcome ==
    Quiescent =>
        \E st \in SerialStores :
            /\ SansTime(products) = SansTime(st.products)
            /\ trolleyItems = st.items

(* C17: the write of a successful update_stock changes, in the store as it *)
(* is at that moment, nothing but stock_quantity and updated_at of the     *)
(* targeted product.                                                       *)
C17_Step ==
    \A c \in Clients :
        (/\ calls[c].pc = "read"
         /\ calls[c].op = "update_stock"
         /\ calls'[c].pc = "done"
         /\ calls'[c].status = 200) =>
            /\ \A r \in products : r.id # calls[c].pk => r \in products'
            /\ Row(products', calls[c].pk).id = calls[c].pk
            /\ Row(products', calls[c].pk).category = Row(products, calls[c].pk).category
            /\ trolleyItems' = trolleyItems

C17_SingleFieldUpdate == [][C17_Step]_vars

----------------------------------------------------------------------------
(* Repeated reports.                                                       *)

(* C18: serving either report stores nothing, and a report asked again     *)
(* with the same parameters, nothing having been stored in between, is     *)
(* answered with an equal response.                                        *)
C18_Step ==
    request'.op \in {"get_current_contents", "get_required_contents"} =>
        /\ stored' = stored
        /\ request' = request => response' = response

C18_ReadOnlyAndRepeatable == [][C18_Step]_vars

(* C19: two get_current_contents calls in a row with the same parameters   *)
(* on the same stored readings keep the same reading for every drawer and  *)
(* (sensor_type, spec_id) pair, also when stored readings of the pair      *)
(* share the maximum timestamp.                                            *)
C19_Step ==
    (/\ request.op = "get_current_contents"
     /\ request' = request
     /\ sensorData' = sensorData
     /\ response.status = 200) =>
        /\ response'.status = 200
        /\ response'.body.drawers = response.body.drawers

C19_TieKeepsSameReading == [][C19_Step]_vars

----------------------------------------------------------------------------
(* QRData: creation through POST /api/qr-data/ and the post_save receiver  *)
(* qr_data_created, which publishes the new record to the group 'qr_data'. *)

MaxQR == 2         \* QRData rows stored

StationIds == {"PK02"}
QrDrawerIds == {"DRW_01", "DRW_13"}

(* The bodies clients post: flight_number may be missing.                  *)
QRBodies ==
    [station_id : StationIds, flight_number : FlightNumbers \cup {Absent},
     drawer_id : QrDrawerIds]

(* QRDataSerializer.is_valid(): the required fields are present.           *)
QRBodyValid(body) == body.flight_number # Absent

(* What the environment makes of the channel layer during one save:        *)
(* working, not configured (get_channel_layer() returns None), or raising  *)
(* in group_send (the backend cannot be reached).                          *)
LayerStates == {"ok", "unavailable", "raises"}

(* datetime.isoformat(): the text of a time.                               *)
IsoFormat(time) == [iso |-> time]

(* model_to_dict(instance) with the two dates added in ISO format; the     *)
(* trolleys of a record are set after its first save.                      *)
QRSnapshot(instance) ==
    [id |-> instance.id, station_id |-> instance.station_id,
     flight_number |-> instance.flight_number, drawer_id |-> instance.drawer_id,
     trolleys |-> <<>>,
     created_at |-> IsoFormat(instance.created_at),
     updated_at |-> IsoFormat(instance.updated_at)]

(* The receiver without its test of `created`: every save publishes.       *)
QrDataCreated_AnySave(instance, created, layer) ==
    IF layer = "ok"
    THEN [raised |-> FALSE,
          sent |-> Append(groupSent,
                          [type |-> "qr_data_created", data |-> QRSnapshot(instance)])]
    ELSE [raised |-> TRUE, sent |-> groupSent]

(* The receiver: what it leaves in the group and whether it raises; no     *)
(* try/except surrounds get_channel_layer() and group_send.                *)
QrDataCreated(instance, created, layer) ==
    IF created
    THEN IF layer = "ok"
         THEN [raised |-> FALSE,
               sent |-> Append(groupSent,
                               [type |-> "qr_data_created", data |-> QRSnapshot(instance)])]
         ELSE [raised |-> TRUE, sent |-> groupSent]
    ELSE [raised |-> FALSE, sent |-> groupSent]

(* serializer.data of QRDataSerializer.                                    *)
QRDataSerializerData(instance) == instance

(* POST /api/qr-data/ (CreateModelMixin.create): the row is inserted, then *)
(* post_save runs the receiver inside save(); an exception of the receiver *)
(* leaves save() and the handler, and the inserted row stays (autocommit). *)
CreateQRData(body, layer) ==
    /\ request' = [op |-> "create_qr_data", body |-> body, layer |-> layer]
    /\ IF QRBodyValid(body)
       THEN /\ nextPk.qr_data <= MaxQR
            /\ NowOf(qrData) <= MaxClock
            /\ LET instance == [id |-> nextPk.qr_data, station_id |-> body.station_id,
                                flight_number |-> body.flight_number,
                                drawer_id |-> body.drawer_id,
                                created_at |-> NowOf(qrData), updated_at |-> NowOf(qrData)]
                   signal == QrDataCreated(instance, TRUE, layer)
               IN  /\ qrData' = qrData \cup {instance}
                   /\ nextPk' = [nextPk EXCEPT !.qr_data = @ + 1]
                   /\ groupSent' = signal.sent
                   /\ response' = IF signal.raised THEN ServerError
                                  ELSE [status |-> 201, body |-> QRDataSerializerData(instance)]
       ELSE /\ response' = [status |-> 400,
                            body |-> [flight_number |-> "This field is required."]]
            /\ UNCHANGED <<qrData, nextPk, groupSent>>
    /\ UNCHANGED <<catalog, specifications, specItems, sensorData, trolleyItems, calls>>

QRExists(pk) == \E x \in qrData : x.id = pk

(* PATCH /api/qr-data/{pk}/ with a flight_number: the save of an existing  *)
(* record runs the receiver with created = False.                          *)
PartialUpdateQRData(pk, flight_number, layer) ==
    /\ request' = [op |-> "partial_update_qr_data", pk |-> pk,
                   flight_number |-> flight_number, layer |-> layer]
    /\ IF QRExists(pk)
       THEN /\ NowOf(qrData) <= MaxClock
            /\ LET instance == [Row(qrData, pk) EXCEPT !.flight_number = flight_number,
                                                         !.updated_at = NowOf(qrData)]
                   signal == QrDataCreated(instance, FALSE, layer)
               IN  /\ qrData' = {IF r.id = pk THEN instance ELSE r : r \in qrData}
                   /\ groupSent' = signal.sent
                   /\ response' = IF signal.raised THEN ServerError
                                  ELSE [status |-> 200, body |-> QRDataSerializerData(instance)]
       ELSE /\ response' = NotFound
            /\ UNCHANGED <<qrData, groupSent>>
    /\ UNCHANGED <<catalog, specifications, specItems, sensorData, trolleyItems, nextPk,
                   calls>>

InitQR ==
    /\ InitCatalog
    /\ InitQuiet
    /\ specifications = {}
    /\ specItems = {}
    /\ sensorData = {}
    /\ nextPk = [t \in Tables |-> 1]

NextQR ==
    \/ \E body \in QRBodies, layer \in LayerStates : CreateQRData(body, layer)
    \/ \E pk \in 1..MaxQR, fn \in FlightNumbers, layer \in LayerStates :
          PartialUpdateQRData(pk, fn, layer)

SpecQR == InitQR /\ [][NextQR]_vars

----------------------------------------------------------------------------
(* Properties of QRData creation.                                          *)

(* C20: a creation with a valid body during which the notifier fails       *)
(* (no channel layer, or group_send raising) still answers 201 and has     *)
(* stored the record.                                                      *)
C20_NotifierFailureDoesNotFailCreate ==
    (/\ request.op = "create_qr_data"
     /\ QRBodyValid(request.body)
     /\ request.layer # "ok") =>
        /\ response.status = 201
        /\ \E r \in qrData :
              /\ r.id = response.body.id
              /\ r.flight_number = request.body.flight_number
              /\ r.drawer_id = request.body.drawer_id

(* The rows a step inserted into the QRData table.                         *)
InsertedQR == {r \in qrData' : ~QRExists(r.id)}

(* The last event of the group carries the snapshot of record r.           *)
CarriesSnapshot(event, r) ==
    /\ event.type = "qr_data_created"
    /\ event.data.id = r.id
    /\ event.data.station_id = r.station_id
    /\ event.data.flight_number = r.flight_number
    /\ event.data.drawer_id = r.drawer_id
    /\ event.data.created_at = IsoFormat(r.created_at)
    /\ event.data.updated_at = IsoFormat(r.updated_at)

PublishedOne(r) ==
    /\ Len(groupSent') = Len(groupSent) + 1
    /\ SubSeq(groupSent', 1, Len(groupSent)) = groupSent
    /\ CarriesSnapshot(groupSent'[Len(groupSent')], r)

(* C21 as stated: every step that inserts a QRData record publishes        *)
(* exactly one event with that record's snapshot, and a step that inserts  *)
(* none publishes nothing.                                                 *)
C21_StepAsStated ==
    /\ \A r \in InsertedQR : PublishedOne(r)
    /\ InsertedQR = {} => groupSent' = groupSent

C21_EveryCreationPublishes == [][C21_StepAsStated]_vars

(* C21: a creation during which the channel layer works publishes exactly  *)
(* one 'qr_data_created' event carrying the snapshot of the record, which  *)
(* is stored by then; a creation during which the channel layer fails      *)
(* publishes none; the save of an existing record publishes none.          *)
C21_Step ==
    /\ \A r \in InsertedQR :
          /\ request'.op = "create_qr_data"
          /\ IF request'.layer = "ok"
             THEN PublishedOne(r) /\ r \in qrData'
             ELSE groupSent' = groupSent
    /\ InsertedQR = {} => groupSent' = groupSent

C21_CreationPublishesOnceWhenLayerWorks == [][C21_Step]_vars

(* A creation answered 201 whose event is the only one in the group, and   *)
(* then an update of that record that added none.                          *)
C21_Witness ==
    /\ request.op = "partial_update_qr_data"
    /\ request.layer = "ok"
    /\ response.status = 200
    /\ Len(groupSent) = 1
    /\ groupSent[1].data.id = response.body.id
    /\ groupSent[1].data.flight_number # response.body.flight_number

----------------------------------------------------------------------------
(* Deletion through the API (DestroyModelMixin.destroy -> Model.delete()): *)
(* the collector follows the foreign keys declared with on_delete=CASCADE  *)
(* and deletes what it reaches, and updates to NULL those declared with    *)
(* on_delete=SET_NULL, all in one transaction.                             *)

(* A null foreign key; primary keys start at 1.                            *)
Null == 0

NoContent == [status |-> 204]

(* The collector stopping at the drawers: no SpecificationItem is reached. *)
Collected_ItemsKept(table, pk) ==
    LET ts == IF table = "trolley" THEN {pk} ELSE {}
        ls == IF table = "level" THEN {pk}
              ELSE {x.id : x \in {l \in levels : l.trolley \in ts}}
        ds == IF table = "drawer" THEN {pk}
              ELSE {x.id : x \in {d \in drawers : d.trolley \in ts \/ d.level \in ls}}
        ps == IF table = "product" THEN {pk} ELSE {}
        ss == IF table = "specification" THEN {pk} ELSE {}
        is == IF table = "spec_item" THEN {pk} ELSE {}
    IN  [trolleys |-> ts, levels |-> ls, drawers |-> ds, products |-> ps,
         specifications |-> ss, specItems |-> is]

(* The primary keys, per table, of the rows deleted with row pk of `table`:*)
(* TrolleyLevel.trolley, TrolleyDrawer.trolley, TrolleyDrawer.level and    *)
(* the three foreign keys of SpecificationItem are CASCADE.                *)
Collected(table, pk) ==
    LET ts == IF table = "trolley" THEN {pk} ELSE {}
        ls == IF table = "level" THEN {pk}
              ELSE {x.id : x \in {l \in levels : l.trolley \in ts}}
        ds == IF table = "drawer" THEN {pk}
              ELSE {x.id : x \in {d \in drawers : d.trolley \in ts \/ d.level \in ls}}
        ps == IF table = "product" THEN {pk} ELSE {}
        ss == IF table = "specification" THEN {pk} ELSE {}
        is == IF table = "spec_item" THEN {pk}
              ELSE {x.id : x \in {i \in specItems : \/ i.specification \in ss
                                                    \/ i.drawer \in ds
                                                    \/ i.product \in ps}}
    IN  [trolleys |-> ts, levels |-> ls, drawers |-> ds, products |-> ps,
         specifications |-> ss, specItems |-> is]

Without(rows, pks) == {x \in rows : x.id \notin pks}

(* SensorData.drawer declared CASCADE: the readings go with the drawer.    *)
SensorDataAfterDelete_Cascade(ds) == {r \in sensorData : r.drawer \notin ds}

(* SensorData.drawer is SET_NULL: the readings of deleted drawers stay,    *)
(* their drawer set to NULL by an UPDATE.                                  *)
SensorDataAfterDelete(ds) ==
    {IF r.drawer \in ds THEN [r EXCEPT !.drawer = Null] ELSE r : r \in sensorData}

(* Specification.trolley_template is SET_NULL.                             *)
SpecificationsAfterDelete(ts, ss) ==
    {IF s.trolley_template \in ts THEN [s EXCEPT !.trolley_template = Null] ELSE s :
        s \in Without(specifications, ss)}

(* The store after instance.delete().                                      *)
DeleteCollected(c) ==
    /\ trolleys' = Without(trolleys, c.trolleys)
    /\ levels' = Without(levels, c.levels)
    /\ drawers' = Without(drawers, c.drawers)
    /\ products' = Without(products, c.products)
    /\ specifications' = SpecificationsAfterDelete(c.trolleys, c.specifications)
    /\ specItems' = Without(specItems, c.specItems)
    /\ sensorData' = SensorDataAfterDelete(c.drawers)

(* The rows of a table of the store, by the table's name.                  *)
RowsOf(table) ==
    CASE table = "trolley" -> trolleys
      [] table = "level" -> levels
      [] table = "drawer" -> drawers
      [] table = "product" -> products
      [] table = "specification" -> specifications
      [] table = "spec_item" -> specItems

(* DELETE /api/<table>/{pk}/ of the six ModelViewSets: 404 from            *)
(* get_object(), else the row and what the collector reaches are deleted   *)
(* and the answer is 204.                                                  *)
Destroy(table, pk) ==
    /\ request' = [op |-> "destroy", table |-> table, pk |-> pk]
    /\ IF \E x \in RowsOf(table) : x.id = pk
       THEN /\ DeleteCollected(Collected(table, pk))
            /\ response' = NoContent
       ELSE /\ response' = NotFound
            /\ UNCHANGED <<trolleys, levels, drawers, products, specifications,
                           specItems, sensorData>>
    /\ UNCHANGED <<trolleyItems, qrData, nextPk, groupSent, calls>>

DeletableTables == {"trolley", "level", "drawer", "product", "specification", "spec_item"}

----------------------------------------------------------------------------
(* SpecificationItem through the API: SpecificationItemViewSet (create,    *)
(* update, partial_update) and SpecificationViewSet.add_item, all through  *)
(* SpecificationItemSerializer.  A request body is a record holding the    *)
(* fields the client sent.                                                 *)

ItemFieldNames == {"specification", "drawer", "product", "required_quantity"}

SpecificationExists(pk) == \E x \in specifications : x.id = pk
DrawerExists(pk) == \E x \in drawers : x.id = pk
SpecItemExists(pk) == \E x \in specItems : x.id = pk

(* The fields in error: a field left out is required unless the update is  *)
(* partial; the three PrimaryKeyRelatedFields must name a stored row;      *)
(* required_quantity carries the model's MinValueValidator(1).             *)
ItemFieldErrors(body, partial) ==
    {f \in ItemFieldNames :
        IF f \notin DOMAIN body THEN ~partial
        ELSE CASE f = "specification" -> ~SpecificationExists(body[f])
               [] f = "drawer" -> ~DrawerExists(body[f])
               [] f = "product" -> ~ProductExists(body[f])
               [] f = "required_quantity" -> body[f] < 1}

(* The validated fields laid over the instance being updated, if any.      *)
ItemAttrs(body, instance) ==
    [f \in (DOMAIN body \cap ItemFieldNames) \cup (DOMAIN instance \ {"id"}) |->
        IF f \in DOMAIN body THEN body[f] ELSE instance[f]]

NoInstance == [id |-> Null]

(* The UniqueTogetherValidator of Meta.unique_together left out.           *)
ItemUniqueError_None(attrs, instance) == FALSE

(* UniqueTogetherValidator: another row already holds the triple.          *)
ItemUniqueError(attrs, instance) ==
    \E x \in specItems : x.id # instance.id /\ SameTriple(x, attrs)

(* serializer.errors; the validators run once every field has passed.      *)
ItemErrors(body, instance, partial) ==
    LET fields == ItemFieldErrors(body, partial)
    IN  IF fields # {} THEN fields
        ELSE IF ItemUniqueError(ItemAttrs(body, instance), instance)
             THEN {"non_field_errors"}
             ELSE {}

BadRequest(errors) == [status |-> 400, body |-> [errors |-> errors]]

(* serializer.save() of a new item, answered 201 with the stored row, or   *)
(* the 400 of serializer.errors.                                           *)
SaveNewItem(data) ==
    IF ItemErrors(data, NoInstance, FALSE) = {}
    THEN /\ nextPk.spec_item <= MaxItems
         /\ LET instance == WithId(ItemAttrs(data, NoInstance), nextPk.spec_item)
            IN  /\ specItems' = specItems \cup {instance}
                /\ response' = [status |-> 201, body |-> instance]
         /\ nextPk' = [nextPk EXCEPT !.spec_item = @ + 1]
    ELSE /\ response' = BadRequest(ItemErrors(data, NoInstance, FALSE))
         /\ UNCHANGED <<specItems, nextPk>>

(* POST /api/specification-items/                                          *)
CreateSpecItem(body) ==
    /\ request' = [op |-> "create_spec_item", body |-> body]
    /\ SaveNewItem(body)
    /\ UNCHANGED <<catalog, specifications, sensorData, trolleyItems, qrData,
                   groupSent, calls>>

(* data['specification'] = specification.id on a copy of the body.         *)
WithSpecification(body, pk) ==
    [f \in DOMAIN body \cup {"specification"} |->
        IF f = "specification" THEN pk ELSE body[f]]

(* The body passed on as the client sent it.                               *)
AddItemData_BodyKept(body, pk) ==
    IF "specification" \in DOMAIN body THEN body ELSE WithSpecification(body, pk)

AddItemData(body, pk) == WithSpecification(body, pk)

(* POST /api/specifications/{pk}/items/                                    *)
AddItem(pk, body) ==
    /\ request' = [op |-> "add_item", pk |-> pk, body |-> body]
    /\ IF SpecificationExists(pk)
       THEN SaveNewItem(AddItemData(body, pk))
       ELSE /\ response' = NotFound
            /\ UNCHANGED <<specItems, nextPk>>
    /\ UNCHANGED <<catalog, specifications, sensorData, trolleyItems, qrData,
                   groupSent, calls>>

(* PUT (partial = FALSE) and PATCH (partial = TRUE) of                     *)
(* /api/specification-items/{pk}/                                          *)
UpdateSpecItem(pk, body, partial) ==
    /\ request' = [op |-> "update_spec_item", pk |-> pk, body |-> body,
                   partial |-> partial]
    /\ IF SpecItemExists(pk)
       THEN LET instance == Row(specItems, pk)
                errors == ItemErrors(body, instance, partial)
                saved == WithId(ItemAttrs(body, instance), pk)
            IN  IF errors = {}
                THEN /\ specItems' = (specItems \ {instance}) \cup {saved}
                     /\ response' = [status |-> 200, body |-> saved]
                ELSE /\ response' = BadRequest(errors)
                     /\ UNCHANGED specItems
       ELSE /\ response' = NotFound
            /\ UNCHANGED specItems
    /\ UNCHANGED <<catalog, specifications, sensorData, trolleyItems, qrData, nextPk,
                   groupSent, calls>>

----------------------------------------------------------------------------
(* Creation of the other rows through the ModelViewSets (CreateModelMixin):*)
(* the serializer validates the body, the row is inserted under the next   *)
(* primary key and the answer is 201; an invalid body is answered 400.     *)

CatalogTables == {"trolley", "level", "drawer", "product"}

MaxCreated == 1    \* rows created per catalogue table on top of the fixture

Created == [status |-> 201]

(* POST /api/trolleys/ : name, description and airline are free text.      *)
CreateTrolley ==
    /\ request' = [op |-> "create", table |-> "trolley"]
    /\ nextPk.trolley <= Cardinality(FixtureTrolleys) + MaxCreated
    /\ trolleys' = trolleys \cup {[id |-> nextPk.trolley, created_at |-> nextPk.trolley]}
    /\ nextPk' = [nextPk EXCEPT !.trolley = @ + 1]
    /\ response' = Created
    /\ UNCHANGED <<levels, drawers, products, specifications, specItems, sensorData,
                   trolleyItems, qrData, groupSent, calls>>

(* POST /api/levels/ : the trolley exists, level_number is one of          *)
(* LEVEL_CHOICES and (trolley, level_number) is unique.                    *)
LevelBodyValid(body) ==
    /\ TrolleyExists(body.trolley)
    /\ body.level_number \in {1, 2, 3}
    /\ ~\E l \in levels : l.trolley = body.trolley /\ l.level_number = body.level_number

CreateLevel(body) ==
    /\ request' = [op |-> "create", table |-> "level", body |-> body]
    /\ IF LevelBodyValid(body)
       THEN /\ nextPk.level <= Cardinality(FixtureLevels) + MaxCreated
            /\ levels' = levels \cup {WithId(body, nextPk.level)}
            /\ nextPk' = [nextPk EXCEPT !.level = @ + 1]
            /\ response' = Created
       ELSE /\ response' = BadRequest({"level"})
            /\ UNCHANGED <<levels, nextPk>>
    /\ UNCHANGED <<trolleys, drawers, products, specifications, specItems, sensorData,
                   trolleyItems, qrData, groupSent, calls>>

(* POST /api/drawers/ : the trolley and the level exist, drawer_id is      *)
(* unique.  Nothing ties the level to the trolley.                         *)
DrawerBodyValid(body) ==
    /\ TrolleyExists(body.trolley)
    /\ \E l \in levels : l.id = body.level
    /\ ~\E d \in drawers : d.drawer_id = body.drawer_id

CreateDrawer(body) ==
    /\ request' = [op |-> "create", table |-> "drawer", body |-> body]
    /\ IF DrawerBodyValid(body)
       THEN /\ nextPk.drawer <= Cardinality(FixtureDrawers) + MaxCreated
            /\ drawers' = drawers \cup {WithId(body, nextPk.drawer)}
            /\ nextPk' = [nextPk EXCEPT !.drawer = @ + 1]
            /\ response' = Created
       ELSE /\ response' = BadRequest({"drawer"})
            /\ UNCHANGED <<drawers, nextPk>>
    /\ UNCHANGED <<trolleys, levels, products, specifications, specItems, sensorData,
                   trolleyItems, qrData, groupSent, calls>>

(* POST /api/specifications/ : spec_id is unique, trolley_template is null *)
(* or names a stored trolley.                                              *)
SpecificationBodyValid(body) ==
    /\ body.trolley_template = Null \/ TrolleyExists(body.trolley_template)
    /\ ~\E s \in specifications : s.spec_id = body.spec_id

CreateSpecification(body) ==
    /\ request' = [op |-> "create", table |-> "specification", body |-> body]
    /\ IF SpecificationBodyValid(body)
       THEN /\ nextPk.specification <= MaxSpecs
            /\ specifications' = specifications \cup {WithId(body, nextPk.specification)}
            /\ nextPk' = [nextPk EXCEPT !.specification = @ + 1]
            /\ response' = Created
       ELSE /\ response' = BadRequest({"specification"})
            /\ UNCHANGED <<specifications, nextPk>>
    /\ UNCHANGED <<catalog, specItems, sensorData, trolleyItems, qrData, groupSent, calls>>

(* POST /api/sensor-data/ : drawer is null or names a stored drawer; the   *)
(* other fields are taken among their choices.                             *)
SensorBodyValid(body) == body.drawer = Null \/ DrawerExists(body.drawer)

CreateSensorData(body) ==
    /\ request' = [op |-> "create", table |-> "sensor_data", body |-> body]
    /\ IF SensorBodyValid(body)
       THEN /\ nextPk.sensor_data <= MaxReadings
            /\ sensorData' = sensorData \cup {WithId(body, nextPk.sensor_data)}
            /\ nextPk' = [nextPk EXCEPT !.sensor_data = @ + 1]
            /\ response' = Created
       ELSE /\ response' = BadRequest({"drawer"})
            /\ UNCHANGED <<sensorData, nextPk>>
    /\ UNCHANGED <<catalog, specifications, specItems, trolleyItems, qrData, groupSent,
                   calls>>

----------------------------------------------------------------------------
(* Product through ProductViewSet's create, update and partial_update,     *)
(* validated by ProductSerializer.  A body is a record of the fields sent  *)
(* among category and stock_quantity; name and sku are free text and       *)
(* always sent where required, so PUT and PATCH validate alike.            *)

RECURSIVE DropTrailingZeros(_)
DropTrailingZeros(cs) ==
    IF cs # <<>> /\ cs[Len(cs)] = "0" THEN DropTrailingZeros(SubSeq(cs, 1, Len(cs) - 1)) ELSE cs

(* re_decimal.sub('', text): a final '.' followed by zeros only is cut.    *)
WithoutDecimalZeros(cs) ==
    LET head == DropTrailingZeros(cs)
    IN  IF head # <<>> /\ head[Len(head)] = "." THEN SubSeq(head, 1, Len(head) - 1) ELSE cs

(* serializers.IntegerField.to_internal_value: int(str(data)) once the     *)
(* decimal zeros are cut; str() of a bool, a fractional float, a list or   *)
(* a dict is no integer literal, and null is not allowed.                  *)
DrfInteger(v) ==
    CASE v.json = "int" -> Converted(v.int)
      [] v.json = "float" ->
            IF v.tenths % 10 = 0 THEN Converted(v.tenths \div 10) ELSE Raised("invalid")
      [] v.json = "text" ->
            LET n == TextToInt(WithoutDecimalZeros(v.text))
            IN  IF n.ok THEN n ELSE Raised("invalid")
      [] OTHER -> Raised("invalid")

(* The field validated without the model's MinValueValidator(0).           *)
StockFieldError_NoMinValue(v) == ~DrfInteger(v).ok

(* stock_quantity in error: not an integer, or below min_value = 0.        *)
StockFieldError(v) == ~DrfInteger(v).ok \/ DrfInteger(v).value < 0

ProductErrors(body) ==
    IF "stock_quantity" \in DOMAIN body /\ StockFieldError(body.stock_quantity)
    THEN {"stock_quantity"}
    ELSE {}

(* The validated fields laid over an instance.                             *)
ProductAttrs(body, instance) ==
    [instance EXCEPT
        !.category = IF "category" \in DOMAIN body THEN body.category ELSE @,
        !.stock_quantity = IF "stock_quantity" \in DOMAIN body
                           THEN DrfInteger(body.stock_quantity).value ELSE @]

(* The model's defaults: category blank, stock_quantity 0.                 *)
NewProduct(pk) == [id |-> pk, category |-> "", stock_quantity |-> 0, updated_at |-> 0]

(* POST /api/products/                                                     *)
CreateProduct(body) ==
    /\ request' = [op |-> "create", table |-> "product", body |-> body]
    /\ IF ProductErrors(body) = {}
       THEN /\ nextPk.product <= Cardinality(FixtureProducts) + MaxCreated
            /\ Now <= MaxClock
            /\ LET instance == Saved(ProductAttrs(body, NewProduct(nextPk.product)))
               IN  /\ products' = products \cup {instance}
                   /\ response' = [status |-> 201, body |-> ProductSerializerData(instance)]
            /\ nextPk' = [nextPk EXCEPT !.product = @ + 1]
       ELSE /\ response' = BadRequest(ProductErrors(body))
            /\ UNCHANGED <<products, nextPk>>
    /\ UNCHANGED <<trolleys, levels, drawers, specifications, specItems, sensorData,
                   trolleyItems, qrData, groupSent, calls>>

(* PUT (partial = FALSE) and PATCH (partial = TRUE) of /api/products/{pk}/ *)
UpdateProduct(pk, body, partial) ==
    /\ request' = [op |-> "update_product", pk |-> pk, body |-> body, partial |-> partial]
    /\ IF ProductExists(pk)
       THEN IF ProductErrors(body) = {}
            THEN /\ Now <= MaxClock
                 /\ LET instance == ProductAttrs(body, Row(products, pk))
                    IN  /\ products' = Save(products, instance)
                        /\ response' = [status |-> 200,
                                        body |-> ProductSerializerData(Saved(instance))]
            ELSE /\ response' = BadRequest(ProductErrors(body))
                 /\ UNCHANGED products
       ELSE /\ response' = NotFound
            /\ UNCHANGED products
    /\ UNCHANGED <<trolleys, levels, drawers, specifications, specItems, sensorData,
                   trolleyItems, qrData, nextPk, groupSent, calls>>

----------------------------------------------------------------------------
(* Specification items created and updated while rows of every table they  *)
(* reference are created and deleted.  The bodies and the primary keys put *)
(* in the URLs are few: what a row holds besides its foreign keys does not *)
(* matter to a deletion.                                                   *)

CascadeLevelBodies == [trolley : {3}, level_number : {2, 4}]

CascadeDrawerBodies == [trolley : {3}, level : {1}, drawer_id : {"DRW_04"}]

CascadeProductBodies == {[category |-> "Snack"], [stock_quantity |-> JsonInt(-1)]}

CascadeSpecificationBodies == [spec_id : {"S1"}, trolley_template : {1}]

CascadeItemBodies ==
    [specification : {1}, drawer : {1, 3, 4}, product : {1, 3}, required_quantity : {1}]

CascadeItemUpdates == {[drawer |-> 2], [product |-> 2]}

(* The rows clients delete: a trolley with levels and drawers, a level, a  *)
(* drawer of each trolley, a product, the specification, the items, and a  *)
(* row that is not stored.                                                 *)
CascadeTargets ==
    {<<"trolley", 1>>, <<"level", 1>>, <<"drawer", 1>>, <<"drawer", 3>>,
     <<"drawer", 4>>, <<"product", 1>>, <<"product", 3>>, <<"specification", 1>>,
     <<"spec_item", 1>>, <<"spec_item", 3>>}

(* At most MaxCreated rows are created over the catalogue tables.          *)
CatalogCreations ==
    (nextPk.trolley - Cardinality(FixtureTrolleys) - 1)
    + (nextPk.level - Cardinality(FixtureLevels) - 1)
    + (nextPk.drawer - Cardinality(FixtureDrawers) - 1)
    + (nextPk.product - Cardinality(FixtureProducts) - 1)

InitCascade ==
    /\ InitCatalog
    /\ InitQuiet
    /\ specifications = {}
    /\ specItems = {}
    /\ sensorData = {}
    /\ nextPk = [t \in Tables \cup CatalogTables |->
                   CASE t = "trolley" -> Cardinality(FixtureTrolleys) + 1
                     [] t = "level" -> Cardinality(FixtureLevels) + 1
                     [] t = "drawer" -> Cardinality(FixtureDrawers) + 1
                     [] t = "product" -> Cardinality(FixtureProducts) + 1
                     [] OTHER -> 1]

NextCascade ==
    \/ CatalogCreations < MaxCreated /\ CreateTrolley
    \/ \E body \in CascadeLevelBodies : CatalogCreations < MaxCreated /\ CreateLevel(body)
    \/ \E body \in CascadeDrawerBodies : CatalogCreations < MaxCreated /\ CreateDrawer(body)
    \/ \E body \in CascadeProductBodies : CatalogCreations < MaxCreated /\ CreateProduct(body)
    \/ \E body \in CascadeSpecificationBodies : CreateSpecification(body)
    \/ \E body \in CascadeItemBodies : CreateSpecItem(body)
    \/ \E pk \in 1..MaxItems, body \in CascadeItemUpdates : UpdateSpecItem(pk, body, TRUE)
    \/ \E target \in CascadeTargets : Destroy(target[1], target[2])

SpecCascade == InitCascade /\ [][NextCascade]_vars

----------------------------------------------------------------------------
(* Properties of the store under creations and deletions.                  *)

(* C22: every stored SpecificationItem references a stored specification,  *)
(* a stored drawer and a stored product, whatever was created and deleted  *)
(* before: the items went with each of the three that was deleted.         *)
C22_ItemsReferenceStoredRows ==
    \A x \in specItems :
        /\ SpecificationExists(x.specification)
        /\ DrawerExists(x.drawer)
        /\ ProductExists(x.product)

(* Trolley 1 deleted after two items were created, one of them in a drawer *)
(* of trolley 1: that item is gone and the other is left.                  *)
C22_Witness ==
    /\ request.op = "destroy"
    /\ request.table = "trolley"
    /\ response.status = 204
    /\ nextPk.spec_item = 3
    /\ Cardinality(specItems) = 1
    /\ ~DrawerExists(1)

----------------------------------------------------------------------------
(* Sensor readings stored while drawers, levels and trolleys are deleted,  *)
(* and the current-contents report read in between.                        *)

OrphanSensorBodies ==
    [drawer : {1, 2, 3}, timestamp : 1..MaxTime, sensor_type : {"camera"},
     spec_id : {"S1"}, alert_flag : {"OK"}, flight_number : {"F1"}]

(* The rows clients delete: a drawer of each trolley, a level, a trolley.  *)
OrphanTargets ==
    {<<"drawer", 1>>, <<"drawer", 3>>, <<"level", 1>>, <<"trolley", 1>>}

InitOrphans == InitCascade

NextOrphans ==
    \/ \E body \in OrphanSensorBodies : CreateSensorData(body)
    \/ \E target \in OrphanTargets : Destroy(target[1], target[2])
    \/ \E t \in {1, 2} : GetCurrentContents(t, Absent, Absent)

SpecOrphans == InitOrphans /\ [][NextOrphans]_vars

(* C23: a deletion (of a drawer, a level or a trolley) deletes no          *)
(* SensorData row: every reading is kept as it was, its drawer set to null *)
(* if that drawer is gone; and every reading a current-contents report     *)
(* lists is a stored reading of a stored drawer of the trolley, so none    *)
(* with a null drawer is listed.                                           *)
C23_Step ==
    /\ request'.op = "destroy" =>
          /\ {r.id : r \in sensorData'} = {r.id : r \in sensorData}
          /\ \A r \in sensorData :
                IF r.drawer # Null /\ ~\E d \in drawers' : d.id = r.drawer
                THEN [r EXCEPT !.drawer = Null] \in sensorData'
                ELSE r \in sensorData'
    /\ (request'.op = "get_current_contents" /\ response'.status = 200) =>
          \A i \in DOMAIN response'.body.drawers :
              LET entry == response'.body.drawers[i]
              IN  \E d \in drawers :
                      /\ d.trolley = request'.trolley
                      /\ d.drawer_id = entry.drawer_id
                      /\ \A j \in DOMAIN entry.sensor_readings :
                            \E r \in sensorData :
                                /\ r.drawer = d.id
                                /\ ReadingDict(r) = entry.sensor_readings[j]

C23_ReadingsKeptAndInvisible == [][C23_Step]_vars

(* Trolley 1 asked for its contents after drawer DRW_01 was deleted with a *)
(* reading: the reading is stored with a null drawer, the report counts    *)
(* the drawer left and no reading.                                         *)
C23_Witness ==
    /\ request.op = "get_current_contents"
    /\ request.trolley = 1
    /\ response.status = 200
    /\ "message" \notin DOMAIN response.body
    /\ response.body.total_drawers = 1
    /\ response.body.total_sensor_readings = 0
    /\ \E r \in sensorData : r.drawer = Null

----------------------------------------------------------------------------
(* Specification items created and updated through the API over the        *)
(* fixture catalogue, and the required-contents report read in between.    *)

ItemsSpecificationBodies == [spec_id : SpecIds, trolley_template : {1}]

(* Bodies of POST and PUT: a specification and a drawer that may not be    *)
(* stored, a quantity that may be 0.                                       *)
ItemBodies ==
    [specification : 1..MaxSpecs, drawer : {1, 3, 4}, product : {1},
     required_quantity : {0, MaxQuantity}]

(* Bodies of add_item: with or without a 'specification' of their own.     *)
AddItemBodies ==
    ItemBodies \cup [drawer : {1, 3}, product : {1}, required_quantity : {0, 1}]

(* Bodies of PATCH.                                                        *)
ItemPatches == [required_quantity : {0, MaxQuantity}] \cup [drawer : {1, 3}]

InitItems == InitCascade

NextItems ==
    \/ \E body \in ItemsSpecificationBodies : CreateSpecification(body)
    \/ \E body \in ItemBodies : CreateSpecItem(body)
    \/ \E pk \in 1..(MaxSpecs + 1), body \in AddItemBodies : AddItem(pk, body)
    \/ \E pk \in 1..MaxItems, body \in ItemBodies : UpdateSpecItem(pk, body, FALSE)
    \/ \E pk \in 1..MaxItems, body \in ItemPatches : UpdateSpecItem(pk, body, TRUE)
    \/ \E t \in {1, 2} : GetRequiredContents(t, Absent)

SpecItems == InitItems /\ [][NextItems]_vars

----------------------------------------------------------------------------
(* Properties of the specification items stored through the API.           *)

ItemRequest(r) == r.op \in {"create_spec_item", "add_item", "update_spec_item"}

(* The row a request addresses exists: the specification of an add_item,   *)
(* the item of an update.                                                  *)
ItemRequestServed(r) ==
    CASE r.op = "add_item" -> SpecificationExists(r.pk)
      [] r.op = "update_spec_item" -> SpecItemExists(r.pk)
      [] OTHER -> TRUE

(* The primary key of the item a request updates, Null for a creation.     *)
ItemRequestPk(r) == IF r.op = "update_spec_item" THEN r.pk ELSE Null

(* The value a request gives field f of the item: the URL's specification  *)
(* for add_item, else the body's value, else the stored one (updates).     *)
ItemRequestHas(r, f) ==
    \/ f \in DOMAIN r.body
    \/ r.op = "add_item" /\ f = "specification"
    \/ r.op = "update_spec_item"

ItemRequestValue(r, f) ==
    IF r.op = "add_item" /\ f = "specification" THEN r.pk
    ELSE IF f \in DOMAIN r.body THEN r.body[f]
    ELSE Row(specItems, r.pk)[f]

(* The request asks for a quantity below 1, or for the triple of another   *)
(* stored item.                                                            *)
WouldBreakItemRules(r) ==
    \/ /\ ItemRequestHas(r, "required_quantity")
       /\ ItemRequestValue(r, "required_quantity") < 1
    \/ /\ \A f \in {"specification", "drawer", "product"} : ItemRequestHas(r, f)
       /\ \E x \in specItems :
             /\ x.id # ItemRequestPk(r)
             /\ \A f \in {"specification", "drawer", "product"} :
                   x[f] = ItemRequestValue(r, f)

(* C24: after every step the stored items have pairwise different          *)
(* (specification, drawer, product) triples and quantities of at least 1,  *)
(* and a creation or update that asks for a quantity below 1 or for the    *)
(* triple of another item is answered 400 and leaves the items as stored.  *)
C24_Step ==
    /\ \A x, y \in specItems' : x.id # y.id => ~SameTriple(x, y)
    /\ \A x \in specItems' : x.required_quantity >= 1
    /\ (/\ ItemRequest(request')
        /\ ItemRequestServed(request')
        /\ WouldBreakItemRules(request')) =>
            /\ response'.status = 400
            /\ specItems' = specItems

C24_UniqueTriplesAndPositiveQuantities == [][C24_Step]_vars

(* A creation refused for the triple of a stored item.                     *)
C24_Witness ==
    /\ request.op = "create_spec_item"
    /\ response.status = 400
    /\ response.body.errors = {"non_field_errors"}
    /\ \E x \in specItems : SameTriple(x, request.body)

(* C26: an item created by add_item belongs to the specification of the    *)
(* URL, whatever 'specification' the body names, and no stored item is     *)
(* changed by the call.                                                    *)
C26_Step ==
    (request'.op = "add_item" /\ response'.status = 201) =>
        /\ response'.body.specification = request'.pk
        /\ specItems' = specItems \cup {response'.body}
        /\ response'.body \notin specItems

C26_AddItemKeepsUrlSpecification == [][C26_Step]_vars

(* An item added to specification 1 with a body naming specification 2,    *)
(* both stored.                                                            *)
C26_Witness ==
    /\ request.op = "add_item"
    /\ response.status = 201
    /\ "specification" \in DOMAIN request.body
    /\ request.body.specification # request.pk
    /\ SpecificationExists(request.body.specification)
    /\ \E x \in specItems : x.id = response.body.id /\ x.specification = request.pk

----------------------------------------------------------------------------
(* TrolleyViewSet.statistics                                               *)

(* The reverse accessors of a TrolleyLevel: the related_name of every      *)
(* foreign key to it in models.py (TrolleyDrawer.level).                   *)
LevelAccessors == {"drawers"}

(* level.items.all(): an attribute the level does not have.                *)
LevelItems(level) ==
    IF "items" \in LevelAccessors
    THEN Converted({x \in trolleyItems : x.level = level.id})
    ELSE Raised("AttributeError")

(* TrolleyLevel.capacity, 20 by default.                                   *)
LevelCapacity(level) == IF "capacity" \in DOMAIN level THEN level.capacity ELSE 20

RECURSIVE SumQuantity(_)
SumQuantity(S) ==
    IF S = {} THEN 0
    ELSE LET x == CHOOSE y \in S : TRUE
         IN  x.quantity + SumQuantity(S \ {x})

(* round(quantity / capacity * 100, 2) in hundredths of a percent, 0 for a *)
(* capacity of 0 or less.                                                  *)
UsagePercentage(quantity, capacity) ==
    IF capacity > 0 THEN (((quantity * 100000) \div capacity) + 5) \div 10 ELSE 0

(* trolley.levels.all(): Meta.ordering = ['level_number'], unique within a *)
(* trolley.                                                                *)
TrolleyLevels(t) ==
    LET S == {l \in levels : l.trolley = t}
    IN  CHOOSE q \in Orderings(S) :
            \A i, j \in DOMAIN q : i < j => q[i].level_number < q[j].level_number

(* The entry appended to stats['levels'] for one level.                    *)
LevelStats(level) ==
    LET items == LevelItems(level).value
    IN  [level_number |-> level.level_number,
         items_count |-> Cardinality(items),
         total_quantity |-> SumQuantity(items),
         capacity |-> LevelCapacity(level),
         usage_percentage |-> UsagePercentage(SumQuantity(items), LevelCapacity(level))]

(* GET /api/trolleys/{pk}/stats/ : the loop over the levels raises at the  *)
(* first level, and the call ends in a 500.                                *)
Statistics(t) ==
    /\ request' = [op |-> "statistics", trolley |-> t]
    /\ response' =
          IF ~TrolleyExists(t) THEN NotFound
          ELSE LET ls == TrolleyLevels(t)
               IN  IF \E i \in DOMAIN ls : ~LevelItems(ls[i]).ok
                   THEN ServerError
                   ELSE LET entries == [i \in DOMAIN ls |-> LevelStats(ls[i])]
                        IN  [status |-> 200,
                             body |-> [trolley_id |-> t,
                                       total_levels |-> Len(ls),
                                       levels |-> entries,
                                       total_items |->
                                           SumSeq([i \in DOMAIN ls |-> entries[i].items_count]),
                                       total_quantity |->
                                           SumSeq([i \in DOMAIN ls |->
                                                      entries[i].total_quantity])]]
    /\ UNCHANGED <<stored, groupSent, calls>>

(* Levels created with a capacity, levels deleted, statistics read.        *)
StatsLevelBodies == [trolley : {2, 3}, level_number : {1, 2}, capacity : {0, 20}]

(* The primary keys clients put in the URL of a level's deletion.          *)
StatsLevelPks == 1..(Cardinality(FixtureLevels) + MaxCreated)

InitStats == InitCascade

NextStats ==
    \/ \E body \in StatsLevelBodies : CreateLevel(body)
    \/ \E pk \in StatsLevelPks : Destroy("level", pk)
    \/ \E t \in TrolleyPks : Statistics(t)

SpecStats == InitStats /\ [][NextStats]_vars

(* C25: the statistics of a stored trolley are answered 200 with           *)
(* total_levels the number of its levels, total_items the number of items  *)
(* on its levels and total_quantity the sum of their quantities, and a     *)
(* level of capacity 0 or less reports a usage_percentage of 0.            *)
C25_StatisticsTotals ==
    (request.op = "statistics" /\ TrolleyExists(request.trolley)) =>
        /\ response.status = 200
        /\ LET ls == {l \in levels : l.trolley = request.trolley}
               items == {x \in trolleyItems : x.level \in {l.id : l \in ls}}
           IN  /\ response.body.total_levels = Cardinality(ls)
               /\ response.body.total_items = Cardinality(items)
               /\ response.body.total_quantity = SumQuantity(items)
               /\ \A i \in DOMAIN response.body.levels :
                     response.body.levels[i].capacity <= 0 =>
                         response.body.levels[i].usage_percentage = 0

----------------------------------------------------------------------------
(* QRDataConsumer: one consumer per WebSocket connection, kept in `calls`  *)
(* under the name of its channel.  The channel layer hands a group event   *)
(* to the channels that are members of the group when it is sent, so the   *)
(* events of a channel are those the group accepted between its group_add  *)
(* and its group_discard; the consumer is handed them one at a time, and   *)
(* none before its connect handler has returned.                           *)

Consumers == {1, 2}

(* A connection the server has not handled yet.                            *)
NewConsumer ==
    [pc |-> "new", member |-> FALSE, joined |-> 0, left |-> 0, handled |-> 0,
     client |-> <<>>]

(* The events sent to the group while the channel was a member.            *)
ChannelEvents(consumer) ==
    LET last == IF consumer.member THEN Len(groupSent) ELSE consumer.left
    IN  SubSeq(groupSent, consumer.joined + 1, last)

(* Those the consumer has not been handed yet.                             *)
Inbox(consumer) ==
    SubSeq(ChannelEvents(consumer), consumer.handled + 1, Len(ChannelEvents(consumer)))

(* json.dumps of a frame: the text the client parses back into the frame.  *)
JsonDumps(frame) == [text |-> frame]

(* connect, first half: channel_layer.group_add('qr_data', channel_name).  *)
ConnectGroupAdd(c) ==
    /\ calls[c].pc = "new"
    /\ calls' = [calls EXCEPT ![c] =
                    [@ EXCEPT !.pc = "added", !.member = TRUE, !.joined = Len(groupSent)]]
    /\ request' = [op |-> "websocket.connect", client |-> c]
    /\ UNCHANGED <<stored, groupSent, response>>

(* connect, second half: self.accept().                                    *)
ConnectAccept(c) ==
    /\ calls[c].pc = "added"
    /\ calls' = [calls EXCEPT ![c] = [@ EXCEPT !.pc = "open"]]
    /\ request' = [op |-> "websocket.accept", client |-> c]
    /\ UNCHANGED <<stored, groupSent, response>>

(* The handler qr_data_created(event): one frame with the event's data is  *)
(* sent to the client.                                                     *)
AfterEvent(consumer, event) ==
    [consumer EXCEPT
        !.handled = @ + 1,
        !.client = Append(@, JsonDumps([type |-> "qr_data_created", data |-> event.data]))]

(* The consumer is handed the next event of its channel; the event's type  *)
(* names the handler.                                                      *)
HandleEvent(c) ==
    /\ calls[c].pc = "open"
    /\ Inbox(calls[c]) # <<>>
    /\ Head(Inbox(calls[c])).type = "qr_data_created"
    /\ calls' = [calls EXCEPT ![c] = AfterEvent(@, Head(Inbox(calls[c])))]
    /\ request' = [op |-> "qr_data_created", client |-> c]
    /\ UNCHANGED <<stored, groupSent, response>>

(* disconnect without its group_discard.                                   *)
AfterDisconnect_NoDiscard(consumer) == [consumer EXCEPT !.pc = "closed"]

(* disconnect(close_code): channel_layer.group_discard('qr_data',          *)
(* channel_name); the consumer stops after it.                             *)
AfterDisconnect(consumer) ==
    [consumer EXCEPT !.pc = "closed", !.member = FALSE, !.left = Len(groupSent)]

Disconnect(c) ==
    /\ calls[c].pc = "open"
    /\ calls' = [calls EXCEPT ![c] = AfterDisconnect(@)]
    /\ request' = [op |-> "websocket.disconnect", client |-> c]
    /\ UNCHANGED <<stored, groupSent, response>>

SocketQRBodies == [station_id : StationIds, flight_number : {"F1"}, drawer_id : QrDrawerIds]

InitSockets ==
    /\ InitCatalog
    /\ specifications = {}
    /\ specItems = {}
    /\ sensorData = {}
    /\ trolleyItems = {}
    /\ qrData = {}
    /\ nextPk = [t \in Tables |-> 1]
    /\ groupSent = <<>>
    /\ calls = [c \in Consumers |-> NewConsumer]

NextSockets ==
    \/ \E body \in SocketQRBodies, layer \in {"ok", "raises"} : CreateQRData(body, layer)
    \/ \E c \in Consumers : ConnectGroupAdd(c)
    \/ \E c \in Consumers : ConnectAccept(c)
    \/ \E c \in Consumers : HandleEvent(c)
    \/ \E c \in Consumers : Disconnect(c)

SpecSockets == InitSockets /\ [][NextSockets]_vars

(* What the client of a consumer has been sent, read back from the frames. *)
ClientFrames(consumer) == [i \in 1..Len(consumer.client) |-> consumer.client[i].text]

C27_State ==
    \A c \in Consumers :
        LET consumer == calls[c]
            events == ChannelEvents(consumer)
            frames == ClientFrames(consumer)
        IN  /\ consumer.pc = "open" => consumer.member
            /\ consumer.pc = "closed" => ~consumer.member
            /\ Len(frames) = consumer.handled
            /\ consumer.handled <= Len(events)
            /\ \A i \in 1..Len(frames) :
                   frames[i] = [type |-> "qr_data_created", data |-> events[i].data]

C27_Step ==
    \A c \in Consumers :
        /\ calls[c].pc = "closed" =>
               /\ calls'[c] = calls[c]
               /\ ChannelEvents(calls[c])' = ChannelEvents(calls[c])
        /\ calls[c].member /\ calls'[c].member /\ Len(groupSent') > Len(groupSent) =>
               Len(ChannelEvents(calls[c])') = Len(ChannelEvents(calls[c])) + 1
        /\ calls'[c].handled # calls[c].handled =>
               /\ calls[c].pc = "open"
               /\ calls'[c].handled = calls[c].handled + 1
               /\ ClientFrames(calls'[c]) =
                      Append(ClientFrames(calls[c]),
                             [type |-> "qr_data_created",
                              data |-> ChannelEvents(calls[c])[calls[c].handled + 1].data])

(* C27: a consumer's channel is in the 'qr_data' group while the consumer  *)
(* is open and out of it once disconnect has run; every event the consumer *)
(* is handed reaches its client as one frame with the event's data, in     *)
(* order; a closed consumer is handed nothing and its channel is sent      *)
(* nothing more.                                                           *)
C27_MemberFromConnectToDisconnect == [](C27_State) /\ [][C27_Step]_vars

(* A consumer forwarded an event and disconnected, and the group was sent  *)
(* another event afterwards that the consumer's client never got.          *)
C27_Witness ==
    \E c \in Consumers :
        /\ calls[c].pc = "closed"
        /\ calls[c].handled >= 1
        /\ Len(groupSent) > calls[c].left
        /\ Len(calls[c].client) = calls[c].handled
        /\ calls[c].client[1].text.data = groupSent[calls[c].joined + 1].data

----------------------------------------------------------------------------
(* The products' stock written through every route of ProductViewSet that  *)
(* writes it: create, update, partial_update and update_stock.             *)

(* Stock values of each kind a body can carry: negative, zero and          *)
(* positive integers, negative text, negative floats with and without a    *)
(* fraction, and a bool.                                                   *)
ProductStockInputs ==
    {JsonInt(-1), JsonInt(0), JsonInt(15), JsonText(<<"-", "1">>), JsonFloat(-10),
     JsonFloat(-5), JsonBool(TRUE)}

ProductBodies ==
    {[category |-> "Snack"]} \cup {[stock_quantity |-> v] : v \in ProductStockInputs}

(* A product of the catalogue and the one created.                         *)
ProductTargets == {1, Cardinality(FixtureProducts) + 1}

InitProducts == InitCascade

NextProducts ==
    \/ \E body \in ProductBodies : CreateProduct(body)
    \/ \E pk \in ProductTargets, body \in ProductBodies : UpdateProduct(pk, body, FALSE)
    \/ \E pk \in ProductTargets, body \in ProductBodies : UpdateProduct(pk, body, TRUE)
    \/ \E pk \in ProductTargets, new_stock \in ProductStockInputs : UpdateStock(pk, new_stock)

SpecProducts == InitProducts /\ [][NextProducts]_vars

(* C28: whatever products are created, replaced, patched or restocked      *)
(* through the API, no stored product has a negative stock_quantity.       *)
C28_StockNeverNegative == \A x \in products : x.stock_quantity >= 0

(* A request that carried a negative stock was answered 400, and both a    *)
(* created product and a product of the catalogue have been written.       *)
C28_Witness ==
    /\ response.status = 400
    /\ \/ /\ request.op = "update_product"
          /\ "stock_quantity" \in DOMAIN request.body
          /\ DrfInteger(request.body.stock_quantity).ok
          /\ DrfInteger(request.body.stock_quantity).value < 0
       \/ /\ request.op = "update_stock"
          /\ PyInt(request.stock_quantity).ok
          /\ PyInt(request.stock_quantity).value < 0
    /\ \E x \in products : x.id > Cardinality(FixtureProducts) /\ x.updated_at > 0
    /\ \E x \in products : x.id <= Cardinality(FixtureProducts) /\ x.updated_at > 0

----------------------------------------------------------------------------
(* get_current_contents one query at a time, while other requests delete   *)
(* rows.  The handler's queries are get_object, drawers.exists(), the      *)
(* fetch of the drawers (for drawer in drawers), and per drawer            *)
(* sensor_data_qs.exists(), the fetch of its rows and the fetch of         *)
(* drawer.level; drawers.count() is answered from the drawers fetched.     *)
(* Each query sees the rows stored when it runs.  calls[c] holds the       *)
(* handler's locals.                                                       *)

Readers == {1}

(* DELETE /api/sensor-data/{pk}/ (SensorDataViewSet.destroy).              *)
DestroySensorData(pk) ==
    /\ request' = [op |-> "destroy", table |-> "sensor_data", pk |-> pk]
    /\ IF \E r \in sensorData : r.id = pk
       THEN /\ sensorData' = {r \in sensorData : r.id # pk}
            /\ response' = NoContent
       ELSE /\ sensorData' = sensorData
            /\ response' = NotFound
    /\ UNCHANGED <<catalog, specifications, specItems, trolleyItems, qrData, nextPk,
                   groupSent, calls>>

ContentsRequest(call) ==
    [op |-> "get_current_contents", trolley |-> call.trolley,
     flight_number |-> call.flight_number, alert_flag |-> call.alert_flag]

(* trolley = self.get_object()                                             *)
ContentsGetObject(c, t, flight_number, alert_flag) ==
    /\ calls[c] = Idle
    /\ IF TrolleyExists(t)
       THEN /\ calls' = [calls EXCEPT ![c] =
                            [pc |-> "drawers_exist", trolley |-> t,
                             flight_number |-> flight_number, alert_flag |-> alert_flag]]
            /\ UNCHANGED <<request, response>>
       ELSE /\ request' = [op |-> "get_current_contents", trolley |-> t,
                           flight_number |-> flight_number, alert_flag |-> alert_flag]
            /\ response' = NotFound
            /\ UNCHANGED calls
    /\ UNCHANGED <<stored, groupSent>>

(* if not drawers.exists(): the marker.                                    *)
ContentsDrawersExist(c) ==
    /\ calls[c].pc = "drawers_exist"
    /\ IF \E d \in drawers : d.trolley = calls[c].trolley
       THEN /\ calls' = [calls EXCEPT ![c] = [@ EXCEPT !.pc = "drawers_fetch"]]
            /\ UNCHANGED <<request, response>>
       ELSE /\ calls' = [calls EXCEPT ![c] = Idle]
            /\ request' = ContentsRequest(calls[c])
            /\ response' = [status |-> 200,
                            body |-> [trolley_id |-> calls[c].trolley,
                                      message |-> "Este trolley no tiene drawers",
                                      drawers |-> <<>>]]
    /\ UNCHANGED <<stored, groupSent>>

(* The handler's next query once it is done with drawer number i.          *)
AfterDrawer(call, i) ==
    [call EXCEPT !.pc = IF i < Len(call.ds) THEN "sensor_exists" ELSE "respond",
                 !.i = i + 1]

(* for drawer in drawers: the drawers are fetched, once.                   *)
ContentsFetchDrawers(c) ==
    /\ calls[c].pc = "drawers_fetch"
    /\ LET call == calls[c]
           fetched == [trolley |-> call.trolley, flight_number |-> call.flight_number,
                       alert_flag |-> call.alert_flag, pc |-> "drawers_fetch",
                       ds |-> TrolleyDrawers(call.trolley), i |-> 0,
                       qs |-> <<>>, drawers_data |-> <<>>]
       IN  calls' = [calls EXCEPT ![c] = AfterDrawer(fetched, 0)]
    /\ UNCHANGED <<stored, groupSent, request, response>>

(* if sensor_data_qs.exists():                                             *)
ContentsSensorExists(c) ==
    /\ calls[c].pc = "sensor_exists"
    /\ LET call == calls[c]
           drawer == call.ds[call.i]
       IN  calls' = [calls EXCEPT ![c] =
                        IF FilteredSensorData(drawer.id, call.flight_number,
                                              call.alert_flag) # {}
                        THEN [call EXCEPT !.pc = "sensor_fetch"]
                        ELSE AfterDrawer(call, call.i)]
    /\ UNCHANGED <<stored, groupSent, request, response>>

(* for sensor in sensor_data_qs: the rows are fetched.                     *)
ContentsFetchSensors(c) ==
    /\ calls[c].pc = "sensor_fetch"
    /\ LET call == calls[c]
           drawer == call.ds[call.i]
       IN  \E qs \in SensorQuerySets(drawer.id, call.flight_number, call.alert_flag) :
               calls' = [calls EXCEPT ![c] = [call EXCEPT !.pc = "level_fetch", !.qs = qs]]
    /\ UNCHANGED <<stored, groupSent, request, response>>

(* drawers_data.append(...): drawer.level is fetched; a level that is gone *)
(* is a DoesNotExist nobody catches.                                       *)
ContentsFetchLevel(c) ==
    /\ calls[c].pc = "level_fetch"
    /\ LET call == calls[c]
           drawer == call.ds[call.i]
       IN  IF \E l \in levels : l.id = drawer.level
           THEN /\ calls' = [calls EXCEPT ![c] =
                                AfterDrawer([call EXCEPT
                                                !.drawers_data =
                                                    Append(@, DrawerEntry(drawer, call.qs)),
                                                !.qs = <<>>],
                                            call.i)]
                /\ UNCHANGED <<request, response>>
           ELSE /\ calls' = [calls EXCEPT ![c] = Idle]
                /\ request' = ContentsRequest(call)
                /\ response' = ServerError
    /\ UNCHANGED <<stored, groupSent>>

(* The report: drawers.count() is the number of drawers fetched.           *)
ContentsReport(call) ==
    [trolley_id |-> call.trolley,
     total_drawers |-> Len(call.ds),
     drawers_with_data |-> Len(call.drawers_data),
     total_sensor_readings |->
         SumSeq([i \in DOMAIN call.drawers_data |-> call.drawers_data[i].readings_count]),
     total_alerts |-> SumSeq([i \in DOMAIN call.drawers_data |-> call.drawers_data[i].alerts]),
     drawers |-> call.drawers_data]

ContentsRespond(c) ==
    /\ calls[c].pc = "respond"
    /\ calls' = [calls EXCEPT ![c] = Idle]
    /\ request' = ContentsRequest(calls[c])
    /\ response' = [status |-> 200, body |-> ContentsReport(calls[c])]
    /\ UNCHANGED <<stored, groupSent>>

ContentsSensorBodies ==
    [drawer : {1, 3}, timestamp : {1}, sensor_type : {"camera"}, spec_id : {"S1"},
     alert_flag : {"Alert"}, flight_number : {"F1"}]

(* The rows the other requests delete: the drawers of trolleys 1 and 2, a  *)
(* level and a trolley.                                                    *)
ContentsTargets ==
    {<<"drawer", 1>>, <<"drawer", 2>>, <<"drawer", 3>>, <<"level", 2>>, <<"trolley", 2>>}

InitContents ==
    /\ InitCatalog
    /\ specifications = {}
    /\ specItems = {}
    /\ sensorData = {}
    /\ trolleyItems = {}
    /\ qrData = {}
    /\ nextPk = [t \in Tables |-> 1]
    /\ groupSent = <<>>
    /\ calls = [c \in Readers |-> Idle]

NextContents ==
    \/ \E body \in ContentsSensorBodies : CreateSensorData(body)
    \/ \E pk \in 1..MaxReadings : DestroySensorData(pk)
    \/ \E target \in ContentsTargets : Destroy(target[1], target[2])
    \/ \E c \in Readers, t \in {1, 2} : ContentsGetObject(c, t, Absent, Absent)
    \/ \E c \in Readers : ContentsDrawersExist(c)
    \/ \E c \in Readers : ContentsFetchDrawers(c)
    \/ \E c \in Readers : ContentsSensorExists(c)
    \/ \E c \in Readers : ContentsFetchSensors(c)
    \/ \E c \in Readers : ContentsFetchLevel(c)
    \/ \E c \in Readers : ContentsRespond(c)

SpecContents == InitContents /\ [][NextContents]_vars

(* C29: every 200 answer of get_current_contents, whatever was deleted     *)
(* while it ran, lists no drawer with an empty sensor_readings, has        *)
(* drawers_with_data <= total_drawers, and is the "no drawers" marker      *)
(* rather than a report with total_drawers = 0.                            *)
C29_ReportConsistentUnderDeletes ==
    (request.op = "get_current_contents" /\ response.status = 200) =>
        /\ \A i \in DOMAIN response.body.drawers :
               response.body.drawers[i].sensor_readings # <<>>
        /\ "total_drawers" \in DOMAIN response.body =>
               /\ response.body.drawers_with_data <= response.body.total_drawers
               /\ response.body.total_drawers # 0

----------------------------------------------------------------------------
(* The drawers of the required-contents report.                            *)

(* C30: in every 200 answer of get_required_contents for trolley T, each   *)
(* by_drawer group names a drawer of T, and each item grouped into the     *)
(* report (the items of the specifications whose trolley_template is T)    *)
(* sits in a drawer of T.                                                  *)
C30_ReportedDrawersAreOfTheTrolley ==
    (request.op = "get_required_contents" /\ response.status = 200) =>
        /\ \A i \in DOMAIN response.body.specifications :
               \A j \in DOMAIN response.body.specifications[i].by_drawer :
                   \E d \in drawers :
                       /\ d.drawer_id = response.body.specifications[i].by_drawer[j].drawer_id
                       /\ d.trolley = request.trolley
        /\ \A s \in SelectedSpecifications(request.trolley, request.spec_id) :
               \A x \in specItems :
                   x.specification = s.id => Row(drawers, x.drawer).trolley = request.trolley

====
